---- MODULE Spec2Model ----
(***************************************************************************)
(* A model of the File API lifecycle (UploadFile, waitForFileActive,       *)
(* DeleteFile, asyncDelete), of the retry classifier (shouldRetry), of the *)
(* response extractor (extractTextFromResponse) and of the generation call *)
(* (GenerateContent, generate) of pkg/gemini.                              *)
(*                                                                         *)
(* Time is discrete, in seconds.  A timer is a count-down of the seconds   *)
(* left; Advance lets time pass up to the next timer event.  A select      *)
(* that has a ready case proceeds before time passes.                      *)
(***************************************************************************)
EXTENDS Integers, Sequences, FiniteSets, TLC

VARIABLES
    conn,        \* c.client # nil
    panic,       \* << >>, or <<operation, name>> once a nil c.client was dereferenced
    remote,      \* the remote service: name -> "absent" | "stored" | "deleted"
    uploads,     \* number of UploadFile calls started
    directs,     \* number of direct DeleteFile / asyncDelete calls started
    pc,          \* position of the current UploadFile call
    ctxErr,      \* ctx.Err() of the caller's context: "none" until it is done
    fileName,    \* file.Name of the current UploadFile call ("" before it is assigned)
    tickLeft,    \* seconds until the ticker fires next
    tickPending, \* a tick is waiting in ticker.C
    timeoutLeft, \* seconds until the time.After(PollingTimeout) channel fires
    dropped,     \* a tick fired while the previous one was still in ticker.C
    lateTicks,   \* ticks put into ticker.C after the timeout fired (saturates at 1)
    hist,        \* the answers of this poll's status calls, in order (the first MaxHist)
    seen,        \* the states this poll's status calls reported
    statusCalls, \* number of Files.Get calls of this poll (saturates at MaxHist + 1)
    pollRes,     \* what waitForFileActive returned: [uri, err]
    result,      \* what UploadFile returned: [uri, name, err]
    procs,       \* the DeleteFile executions: cleanup goroutines and direct calls
    err,         \* classifier: the error handed to shouldRetry
    retryPc,     \* classifier: "input" | "classified"
    retryOut,    \* classifier: what shouldRetry returned
    rawResp,     \* extractor: the response handed to extractTextFromResponse
    extractPc,   \* extractor: "input" | "extracted"
    extractOut,  \* extractor: what extractTextFromResponse returned (or its panic)
    prompt,      \* generation: the prompt of the GenerateContent call
    genCtx,      \* generation: ctx.Err() of the call's context
    budget,      \* generation: c.retryConfig.MaxRetries
    genPc,       \* generation: position of the call
    entered,     \* generation: retry.Do was entered
    requests,    \* generation: Models.GenerateContent requests issued so far
    inFlight,    \* generation: requests issued and not yet answered
    opLog,       \* generation: each attempt of op: the answer it got and its error
    finalResp,   \* generation: the finalResp of generate ([set, text, raw])
    genOut,      \* generation: what the call returned ([done, resp, err])
    entry,       \* generation: the method called (GenerateContent, GenerateWithParts)
    optSeed,     \* generation: opts.Seed, a *int64
    genConfig,   \* generation: the genConfig built by GenerateWithParts ([seed])
    sentConfig,  \* generation: the config of the last request issued
    cfg,         \* NewClient: the Config it was called with
    newPc,       \* NewClient: position of the call
    clientCfg,   \* NewClient: the ClientConfig handed to genai.NewClient
    newOut,      \* NewClient: what the call returned ([client, err])
    calls        \* concurrent uploads: each UploadFile call's [pc, ctx, name, res, result]

vars == <<conn, panic, remote, uploads, directs, pc, ctxErr, fileName, tickLeft,
          tickPending, timeoutLeft, dropped, lateTicks, hist, seen, statusCalls, pollRes, result, procs,
          err, retryPc, retryOut, rawResp, extractPc, extractOut, prompt, genCtx, budget,
          genPc, entered, requests, inFlight, opLog, finalResp, genOut, entry,
          optSeed, genConfig, sentConfig, cfg, newPc, clientCfg, newOut, calls>>

fileVars == <<conn, panic, remote, uploads, directs, pc, ctxErr, fileName, tickLeft,
              tickPending, timeoutLeft, dropped, lateTicks, hist, seen, statusCalls, pollRes, result,
              procs>>

retryVars == <<err, retryPc, retryOut>>

newVars == <<cfg, newPc, clientCfg, newOut>>

concVars == <<calls>>

extractVars == <<rawResp, extractPc, extractOut>>

optVars == <<entry, optSeed, genConfig, sentConfig>>

genVars == <<prompt, genCtx, budget, genPc, entered, requests, inFlight, opLog,
             finalResp, genOut, optVars>>

-----------------------------------------------------------------------------
(* Program constants (seconds).                                            *)

PollingInterval == 2

PollingTimeout == 60

AsyncCleanupTimeout == 15

(* Bounds of the model.                                                    *)

MaxUploads == 1

MaxDirect == 2

MaxHist == 3

MaxChain == 2

-----------------------------------------------------------------------------
(* Errors.  An error is the sequence of the errors its Unwrap chain        *)
(* visits, outermost first; nil is the empty sequence.  A layer records    *)
(* the message's kind and the arguments formatted into it.                 *)

Nil == << >>

Layer(kind, name, bound, code) ==
    [kind |-> kind, name |-> name, bound |-> bound, code |-> code]

\* fmt.Errorf("...: %w", ..., inner)
Wrap(layer, inner) == <<layer>> \o inner

Canceled == Layer("context.Canceled", "", 0, "")

DeadlineExceeded == Layer("context.DeadlineExceeded", "", 0, "")

CtxLayer(e) == IF e = "Canceled" THEN Canceled ELSE DeadlineExceeded

EOF == Layer("io.EOF", "", 0, "")

StatusErr(code) == Layer("grpc.Status", "", 0, code)

NetErr(flags) == Layer("net.Error", "", 0, flags)

APIResponseErr == Layer("APIResponseError", "", 0, "")

OtherErr == Layer("other", "", 0, "")

\* errors.Is(e, target)
ErrorsIs(e, target) == \E i \in 1..Len(e) : e[i] = target

\* errors.As(e, &target), by the kind of the target's type
ErrorsAs(e, kind) == \E i \in 1..Len(e) : e[i].kind = kind

\* the first error of the chain that errors.As finds
FirstAs(e, kind) == e[CHOOSE i \in 1..Len(e) :
                        /\ e[i].kind = kind
                        /\ \A j \in 1..(i - 1) : e[j].kind # kind]

-----------------------------------------------------------------------------
(* shouldRetry (utils.go).                                                 *)

\* the codes.DeadlineExceeded case is missing
RetryableCodesNoDeadline == {"Unavailable", "ResourceExhausted", "Internal"}

RetryableCodes == {"DeadlineExceeded", "Unavailable", "ResourceExhausted", "Internal"}

Codes ==
    {"DeadlineExceeded", "Unavailable", "ResourceExhausted", "Internal",
     "InvalidArgument", "NotFound", "PermissionDenied"}

NetFlags == {"temporary", "timeout", "both", "neither"}

\* status.FromError(e): ok when the chain holds an error with a GRPCStatus
StatusFromErrorOk(e) == ErrorsAs(e, "grpc.Status")

StatusCode(e) == FirstAs(e, "grpc.Status").code

\* netErr.Temporary() || netErr.Timeout()
NetTransient(e) == FirstAs(e, "net.Error").code \in {"temporary", "timeout", "both"}

\* err == context.Canceled || err == context.DeadlineExceeded
CallerStoppedDirect(e) == e = <<Canceled>> \/ e = <<DeadlineExceeded>>

\* errors.Is(err, context.Canceled) || errors.Is(err, context.DeadlineExceeded)
CallerStopped(e) == ErrorsIs(e, Canceled) \/ ErrorsIs(e, DeadlineExceeded)

\* an error of no known class is taken to be transient
UnknownRetryAllowed == TRUE

\* the final return of shouldRetry
UnknownRetry == FALSE

Decision(retry, by) == [retry |-> retry, by |-> by]

\* a classifier that inspects the transport status before the error's type
RetryDecisionStatusFirst(e) ==
    IF e = Nil THEN Decision(FALSE, "nil")
    ELSE IF StatusFromErrorOk(e)
        THEN Decision(StatusCode(e) \in RetryableCodes, "status")
    ELSE IF ErrorsAs(e, "APIResponseError") THEN Decision(FALSE, "logical")
    ELSE IF CallerStopped(e) THEN Decision(FALSE, "caller")
    ELSE IF ErrorsIs(e, EOF) THEN Decision(TRUE, "eof")
    ELSE IF ErrorsAs(e, "net.Error") THEN Decision(NetTransient(e), "net")
    ELSE Decision(UnknownRetry, "default")

\* shouldRetry: the value returned and the check that returned it
RetryDecision(e) ==
    IF e = Nil THEN Decision(FALSE, "nil")
    ELSE IF ErrorsAs(e, "APIResponseError") THEN Decision(FALSE, "logical")
    ELSE IF CallerStopped(e) THEN Decision(FALSE, "caller")
    ELSE IF StatusFromErrorOk(e)
        THEN Decision(StatusCode(e) \in RetryableCodes, "status")
    ELSE IF ErrorsIs(e, EOF) THEN Decision(TRUE, "eof")
    ELSE IF ErrorsAs(e, "net.Error") THEN Decision(NetTransient(e), "net")
    ELSE Decision(UnknownRetry, "default")

shouldRetry(e) == RetryDecision(e).retry

\* the errors the classifier is applied to
ErrLayers ==
    {Layer("fmt.Errorf", "", 0, ""), APIResponseErr, Canceled, DeadlineExceeded,
     EOF, OtherErr}
    \cup {StatusErr(c) : c \in Codes}
    \cup {NetErr(f) : f \in NetFlags}

ErrChains == UNION {[1..n -> ErrLayers] : n \in 0..MaxChain}

NoDecision == Decision(FALSE, "none")

Classify ==
    /\ retryPc = "input"
    /\ retryOut' = RetryDecision(err)
    /\ retryPc' = "classified"
    /\ UNCHANGED err
    /\ UNCHANGED <<fileVars, extractVars, genVars, newVars, concVars>>

-----------------------------------------------------------------------------
(* extractTextFromResponse (utils.go).                                     *)
(* A pointer of the response is a record with a nil flag: the response,    *)
(* each candidate, a candidate's content and each part may be absent.      *)

MaxParts == 2

MaxCands == 2

FinishReasonUnspecified == "FINISH_REASON_UNSPECIFIED"

FinishReasonStop == "STOP"

FinishReasons == {FinishReasonUnspecified, FinishReasonStop, "SAFETY", "MAX_TOKENS"}

NilPart == [nil |-> TRUE, text |-> "", data |-> ""]

\* a part with Text and InlineData ("" when the part has none)
Part(text, data) == [nil |-> FALSE, text |-> text, data |-> data]

Parts ==
    {NilPart, Part("", ""), Part("hello", ""), Part("bye", ""), Part("", "img"),
     Part("", "img2")}

NilContent == [nil |-> TRUE, parts |-> << >>]

Content(parts) == [nil |-> FALSE, parts |-> parts]

Contents ==
    {NilContent} \cup {Content(ps) : ps \in UNION {[1..n -> Parts] : n \in 0..MaxParts}}

NilCandidate == [nil |-> TRUE, finish |-> "", content |-> NilContent]

Candidate(finish, content) == [nil |-> FALSE, finish |-> finish, content |-> content]

Candidates ==
    {NilCandidate} \cup {Candidate(f, c) : f \in FinishReasons, c \in Contents}

\* the candidates after the first one
OtherCandidates ==
    {NilCandidate} \cup
    {Candidate(f, Content(<<Part("bye", "")>>)) : f \in {FinishReasonStop, "SAFETY"}}

NilResponse == [nil |-> TRUE, candidates |-> << >>]

GenerateContentResponse(candidates) == [nil |-> FALSE, candidates |-> candidates]

Responses ==
    {NilResponse, GenerateContentResponse(<< >>)} \cup
    {GenerateContentResponse(<<c>> \o rest) :
        c \in Candidates,
        rest \in UNION {[1..n -> OtherCandidates] : n \in 0..(MaxCands - 1)}}

\* what a call of the extractor does: it returns (text, err) or it panics
Extracted(text, e) == [text |-> text, err |-> e, panics |-> FALSE]

ExtractPanics == [text |-> "", err |-> Nil, panics |-> TRUE]

\* a plain error value in place of the typed one
EmptyResponseErrUntyped == Layer("other", "empty response", 0, "")

\* &APIResponseError{msg: "... empty response ..."}
EmptyResponseErr == Layer("APIResponseError", "empty response", 0, "")

\* &APIResponseError{msg: "... blocked (reason: %v)"}
BlockedErr(reason) == Layer("APIResponseError", "blocked", 0, reason)

EmptyResponse(r) == r.nil \/ Len(r.candidates) = 0

\* only the safety filter counts as a block
BlockedSafetyOnly(candidate) == candidate.finish = "SAFETY"

Blocked(candidate) ==
    /\ candidate.finish # FinishReasonUnspecified
    /\ candidate.finish # FinishReasonStop

NoContent(candidate) == candidate.content.nil \/ Len(candidate.content.parts) = 0

\* a candidate without content is reported as an empty response
NoContentResultErr == Extracted("", <<EmptyResponseErr>>)

NoContentResult == Extracted("", Nil)

\* the text of the first part, empty or not
FirstPartText(parts) ==
    IF Head(parts).nil THEN ExtractPanics ELSE Extracted(Head(parts).text, Nil)

\* the loop over candidate.Content.Parts
RECURSIVE FirstText(_)
FirstText(parts) ==
    IF parts = << >> THEN Extracted("", Nil)
    ELSE IF Head(parts).nil THEN ExtractPanics
    ELSE IF Head(parts).text # "" THEN Extracted(Head(parts).text, Nil)
    ELSE FirstText(Tail(parts))

extractTextFromResponse(r) ==
    IF EmptyResponse(r) THEN Extracted("", <<EmptyResponseErr>>)
    ELSE LET candidate == r.candidates[1] IN
        IF candidate.nil THEN ExtractPanics
        ELSE IF Blocked(candidate)
            THEN Extracted("", <<BlockedErr(candidate.finish)>>)
        ELSE IF NoContent(candidate) THEN NoContentResult
        ELSE FirstText(candidate.content.parts)

NoExtract == [text |-> "", err |-> Nil, panics |-> FALSE]

Extract ==
    /\ extractPc = "input"
    /\ extractOut' = extractTextFromResponse(rawResp)
    /\ extractPc' = "extracted"
    /\ UNCHANGED rawResp
    /\ UNCHANGED <<fileVars, retryVars, genVars, newVars, concVars>>

-----------------------------------------------------------------------------
(* GenerateContent, GenerateWithParts and generate (client.go).  retry.Do  *)
(* is the retry executor: it runs op, asks the predicate about a failure   *)
(* and runs op again, after a delay, at most MaxRetries more times.        *)

MaxBudget == 2

\* An int64 is the pair of its digits to the base 2^31: hi * 2^31 + lo, with
\* 0 <= lo < 2^31.  An int32 is an integer.
MaxInt32 == 2147483647

MinInt32 == -2147483647 - 1

Int64(hi, lo) == [nil |-> FALSE, hi |-> hi, lo |-> lo]

\* the nil *int64
NilSeed == [nil |-> TRUE, hi |-> 0, lo |-> 0]

\* math.MaxInt32 and math.MinInt32 as int64
MaxInt32As64 == Int64(0, MaxInt32)

MinInt32As64 == Int64(-1, 0)

\* a > b and a < b on int64
Greater(a, b) == a.hi > b.hi \/ (a.hi = b.hi /\ a.lo > b.lo)

Less(a, b) == Greater(b, a)

\* the seeds a caller passes: nil, and values from -2^32 to 2^32 - 1
Seeds ==
    {NilSeed} \cup {Int64(hi, lo) : hi \in {-2, -1, 0, 1}, lo \in {0, 12345, MaxInt32}}

\* the nil *int32
NilInt32 == [nil |-> TRUE, v |-> 0]

PtrInt32(v) == [nil |-> FALSE, v |-> v]

\* int32(x): the low 32 bits of x, as a signed number
ToInt32(x) == IF x.hi % 2 = 0 THEN x.lo ELSE x.lo + MinInt32

\* the conversion without the range check: genai.Ptr(int32(*s))
seedToPtrInt32Unchecked(s) ==
    IF s.nil THEN NilInt32 ELSE PtrInt32(ToInt32(s))

\* seedToPtrInt32 (utils.go)
seedToPtrInt32(s) ==
    IF s.nil THEN NilInt32
    ELSE IF Greater(s, MaxInt32As64) \/ Less(s, MinInt32As64) THEN NilInt32
    ELSE PtrInt32(ToInt32(s))

\* GenerateWithParts: the genConfig built from opts
GenConfig(seed) ==
    [seed |-> IF ~seed.nil THEN seedToPtrInt32(seed) ELSE NilInt32]

NoConfig == [seed |-> NilInt32]

Prompts == {"", "hi"}

ErrEmptyPrompt == Layer("ErrEmptyPrompt", "", 0, "")

\* the Response the call returns (NoResponse: the nil *Response)
Response(text, images, raw) ==
    [nil |-> FALSE, text |-> text, images |-> images, raw |-> raw]

NoResponse == [nil |-> TRUE, text |-> "", images |-> << >>, raw |-> NilResponse]

NoFinalResp == NoResponse

NoGenOut == [done |-> FALSE, resp |-> NoResponse, err |-> Nil]

GenReturn(r, e) == [done |-> TRUE, resp |-> r, err |-> e]

\* the answers of the service to a generate request
WireResponses ==
    {GenerateContentResponse(<< >>),
     GenerateContentResponse(<<NilCandidate>>)} \cup
    {GenerateContentResponse(<<Candidate(f, c)>> \o rest) :
        f \in {FinishReasonStop, "SAFETY"},
        c \in Contents,
        rest \in {<< >>, <<Candidate(FinishReasonStop, Content(<<Part("", "img")>>))>>}}

\* what the collection of the images does: it yields them or it panics
Collected(images) == [images |-> images, panics |-> FALSE]

CollectPanics == [images |-> << >>, panics |-> TRUE]

\* the collection ends at the first inline payload
RECURSIVE CollectFirstImage(_, _)
CollectFirstImage(parts, images) ==
    IF parts = << >> THEN Collected(images)
    ELSE IF Head(parts).nil THEN CollectPanics
    ELSE IF Head(parts).data # "" THEN Collected(<<Head(parts).data>>)
    ELSE CollectFirstImage(Tail(parts), images)

\* op: the loop over resp.Candidates[0].Content.Parts that appends the
\* InlineData of the parts that have one
RECURSIVE CollectImages(_, _)
CollectImages(parts, images) ==
    IF parts = << >> THEN Collected(images)
    ELSE IF Head(parts).nil THEN CollectPanics
    ELSE IF Head(parts).data # ""
        THEN CollectImages(Tail(parts), Append(images, Head(parts).data))
    ELSE CollectImages(Tail(parts), images)

\* op: var images [][]byte and the guarded loop that fills it
InlineImages(r) ==
    IF Len(r.candidates) > 0 /\ ~r.candidates[1].nil /\ ~r.candidates[1].content.nil
      THEN CollectImages(r.candidates[1].content.parts, << >>)
      ELSE Collected(<< >>)

\* the failures of a generate request: a transport failure, or the error of
\* the call's context once it is done
WireErrs ==
    {<<StatusErr("Unavailable")>>, <<StatusErr("InvalidArgument")>>, <<EOF>>}
    \cup (IF genCtx = "none" THEN {}
          ELSE {<<Layer("url.Error", "", 0, ""), CtxLayer(genCtx)>>})

\* every prompt is passed on
PromptRejectedNever(p) == FALSE

\* GenerateContent: if prompt == ""
PromptRejected(p) == p = ""

\* every failure is retried
RetryAlways(e) == TRUE

\* the predicate generate hands to retry.Do
RetryPredicate(e) == shouldRetry(e)

\* retry.Do after op returned e (the last of opLog'): the next position
RetryDoNext(log, e) ==
    IF e # Nil /\ RetryPredicate(e) /\ Len(log) <= budget THEN "backoff" ELSE "done"

\* the errors retry.Do may return for the last failure e of op
RetryDoErrs(e) == IF e = Nil THEN {Nil} ELSE {e, Wrap(Layer("retry.Do", "", 0, ""), e)}

\* generate after retry.Do returned e
GenerateReturns(final, e) ==
    IF e # Nil THEN GenReturn(NoResponse, e) ELSE GenReturn(final, Nil)

GenerateContentCall ==
    /\ genPc = "idle"
    /\ entry' = "GenerateContent"
    /\ \E p \in Prompts :
        /\ prompt' = p
        /\ IF PromptRejected(p)
             THEN /\ genPc' = "done"
                  /\ genOut' = GenReturn(NoResponse, <<ErrEmptyPrompt>>)
                  /\ UNCHANGED <<entered, optSeed, genConfig>>
             ELSE /\ genPc' = "op"
                  /\ entered' = TRUE
                  /\ optSeed' = NilSeed
                  /\ genConfig' = GenConfig(NilSeed)
                  /\ UNCHANGED genOut
    /\ UNCHANGED <<genCtx, budget, requests, inFlight, opLog, finalResp, sentConfig>>
    /\ UNCHANGED <<fileVars, retryVars, extractVars, newVars, concVars>>

\* GenerateWithParts called by the user, with a seed in its options
GenerateWithPartsCall ==
    /\ genPc = "idle"
    /\ entry' = "GenerateWithParts"
    /\ \E sd \in Seeds :
        /\ optSeed' = sd
        /\ genConfig' = GenConfig(sd)
    /\ genPc' = "op"
    /\ entered' = TRUE
    /\ UNCHANGED <<prompt, genCtx, budget, requests, inFlight, opLog, finalResp,
                   genOut, sentConfig>>
    /\ UNCHANGED <<fileVars, retryVars, extractVars, newVars, concVars>>

\* the caller's context is cancelled or its deadline passes
GenCancel ==
    /\ genPc \in {"op", "wire", "backoff"}
    /\ genCtx = "none"
    /\ genCtx' \in {"Canceled", "DeadlineExceeded"}
    /\ UNCHANGED <<prompt, budget, genPc, entered, requests, inFlight, opLog,
                   finalResp, genOut, optVars>>
    /\ UNCHANGED <<fileVars, retryVars, extractVars, newVars, concVars>>

\* op sending its request twice without waiting for the first answer
OpSendTwice ==
    /\ genPc = "op"
    /\ IF conn
         THEN /\ genPc' = "wire"
              /\ requests' = requests + 2
              /\ inFlight' = inFlight + 2
              /\ sentConfig' = genConfig
         ELSE /\ genPc' = "panic"
              /\ UNCHANGED <<requests, inFlight, sentConfig>>
    /\ UNCHANGED <<prompt, genCtx, budget, entered, opLog, finalResp, genOut,
                   entry, optSeed, genConfig>>
    /\ UNCHANGED <<fileVars, retryVars, extractVars, newVars, concVars>>

\* op: c.client.Models.GenerateContent is called
OpSend ==
    /\ genPc = "op"
    /\ IF conn
         THEN /\ genPc' = "wire"
              /\ requests' = requests + 1
              /\ inFlight' = inFlight + 1
              /\ sentConfig' = genConfig
         ELSE /\ genPc' = "panic"
              /\ UNCHANGED <<requests, inFlight, sentConfig>>
    /\ UNCHANGED <<prompt, genCtx, budget, entered, opLog, finalResp, genOut,
                   entry, optSeed, genConfig>>
    /\ UNCHANGED <<fileVars, retryVars, extractVars, newVars, concVars>>

\* op returned e to retry.Do, which retries or returns
OpReturned(from, raw, e, final) ==
    LET log == Append(opLog, [from |-> from, raw |-> raw, err |-> e]) IN
    /\ opLog' = log
    /\ finalResp' = final
    /\ genPc' = RetryDoNext(log, e)
    /\ IF RetryDoNext(log, e) = "done"
         THEN \E r \in RetryDoErrs(e) : genOut' = GenerateReturns(final, r)
         ELSE UNCHANGED genOut

\* the request fails: op returns the error
WireFails ==
    /\ genPc = "wire"
    /\ inFlight' = inFlight - 1
    /\ \E e \in WireErrs : OpReturned("wire", NilResponse, e, finalResp)
    /\ UNCHANGED <<prompt, genCtx, budget, entered, requests, optVars>>
    /\ UNCHANGED <<fileVars, retryVars, extractVars, newVars, concVars>>

\* the request is answered: op extracts the text
WireOk ==
    /\ genPc = "wire"
    /\ inFlight' = inFlight - 1
    /\ \E r \in WireResponses :
        LET x == extractTextFromResponse(r) IN
        IF x.panics
          THEN genPc' = "panic" /\ UNCHANGED <<opLog, finalResp, genOut>>
          ELSE IF x.err # Nil
            THEN OpReturned("extract", r, x.err, finalResp)
            ELSE IF InlineImages(r).panics
              THEN genPc' = "panic" /\ UNCHANGED <<opLog, finalResp, genOut>>
              ELSE OpReturned("ok", r, Nil, Response(x.text, InlineImages(r).images, r))
    /\ UNCHANGED <<prompt, genCtx, budget, entered, requests, optVars>>
    /\ UNCHANGED <<fileVars, retryVars, extractVars, newVars, concVars>>

\* the delay before the next attempt is over
BackoffElapsed ==
    /\ genPc = "backoff"
    /\ genPc' = "op"
    /\ UNCHANGED <<prompt, genCtx, budget, entered, requests, inFlight, opLog,
                   finalResp, genOut, optVars>>
    /\ UNCHANGED <<fileVars, retryVars, extractVars, newVars, concVars>>

\* the call's context ends during the delay: retry.Do gives up
BackoffCancelled ==
    /\ genPc = "backoff"
    /\ genCtx # "none"
    /\ genPc' = "done"
    /\ \E r \in RetryDoErrs(<<CtxLayer(genCtx)>>) \cup RetryDoErrs(opLog[Len(opLog)].err) :
        genOut' = GenerateReturns(finalResp, r)
    /\ UNCHANGED <<prompt, genCtx, budget, entered, requests, inFlight, opLog,
                   finalResp, optVars>>
    /\ UNCHANGED <<fileVars, retryVars, extractVars, newVars, concVars>>

-----------------------------------------------------------------------------
(* The remote File API, seen from the client.                              *)

\* the names the server assigns to uploads, in the order it assigns them
NameSeq == <<"files/a", "files/b", "files/c">>

Names == {NameSeq[k] : k \in 1..Len(NameSeq)}

\* the names the server has assigned so far
Assigned == {n \in Names : remote[n] # "absent"}

URIs == {"x", "y"}

FileStates == {"PROCESSING", "ACTIVE", "FAILED", "STATE_UNSPECIFIED"}

\* what Files.Get answers for a stored file
GetResponses ==
    {[state |-> "ACTIVE", uri |-> u] : u \in URIs}
    \cup {[state |-> s, uri |-> ""] : s \in FileStates \ {"ACTIVE"}}

TransportErrs == {<<StatusErr("Unavailable")>>, <<EOF>>}

\* a context: the caller's, context.Background(), or the cleanup's own
\* context.WithTimeout(context.Background(), AsyncCleanupTimeout)
CtxDone(c, left) ==
    \/ c = "caller" /\ ctxErr # "none"
    \/ c = "fresh" /\ left = 0

CtxErrOf(c) == IF c = "caller" THEN CtxLayer(ctxErr) ELSE DeadlineExceeded

\* the errors a remote call made under context c can return
RemoteCallErrs(c, left) ==
    TransportErrs \cup (IF CtxDone(c, left) THEN {<<CtxErrOf(c)>>} ELSE {})

Min(S) == CHOOSE x \in S : \A y \in S : x <= y

\* the process has panicked: nothing runs any more
Crashed == panic # << >>

-----------------------------------------------------------------------------
(* UploadFile and waitForFileActive (file_api.go).                         *)

NoPoll == [uri |-> "", err |-> Nil]

NoResult == [uri |-> "", name |-> "", err |-> Nil]

\* the same message formatted with %v: the cause is not wrapped
UploadFailedErrOpaque(e) == <<Layer("UploadFailed", "", 0, "")>>

UploadFailedErr(e) == Wrap(Layer("UploadFailed", "", 0, ""), e)

WaitFailedErr(name, e) == Wrap(Layer("WaitFailed", name, 0, ""), e)

\* the same message without ctx.Err()
PollCanceledErrOpaque(name, ce) == <<Layer("PollCanceled", name, 0, "")>>

PollCanceledErr(name, ce) == Wrap(Layer("PollCanceled", name, 0, ""), <<CtxLayer(ce)>>)

\* the same message without the bound
PollTimeoutErrNoBound(name) == <<Layer("PollTimeout", name, 0, "")>>

\* the timeout ends the wait without an error
PollTimeoutNil(name) == Nil

PollTimeoutErr(name) == <<Layer("PollTimeout", name, PollingTimeout, "")>>

\* the same message formatted with %v: the cause is not wrapped
StatusCheckFailedErrOpaque(name, e) == <<Layer("StatusCheckFailed", name, 0, "")>>

StatusCheckFailedErr(name, e) == Wrap(Layer("StatusCheckFailed", name, 0, ""), e)

\* the failure reported with the message of the timeout
ServerFailedAsTimeout(name) == <<Layer("PollTimeout", name, PollingTimeout, "")>>

ServerFailedErr(name) == <<Layer("ServerFailed", name, 0, "")>>

DeleteFailedErr(name, e) == Wrap(Layer("DeleteFailed", name, 0, ""), e)

\* waitForFileActive returns: the ticker is stopped (defer ticker.Stop())
\* and the timeout channel is dropped
StopTimers ==
    /\ tickLeft' = PollingInterval
    /\ tickPending' = FALSE
    /\ timeoutLeft' = PollingTimeout
    /\ dropped' = FALSE
    /\ lateTicks' = 0

\* UploadFile is called with a fresh caller context
UploadFileCall ==
    /\ ~Crashed
    /\ pc \in {"idle", "done"}
    /\ uploads < MaxUploads
    /\ uploads' = uploads + 1
    /\ IF conn
         THEN pc' = "uploading" /\ UNCHANGED panic
         ELSE panic' = <<"UploadFile", "">> /\ pc' = "idle"
    /\ ctxErr' = "none"
    /\ fileName' = ""
    /\ tickLeft' = PollingInterval
    /\ tickPending' = FALSE
    /\ timeoutLeft' = PollingTimeout
    /\ dropped' = FALSE
    /\ lateTicks' = 0
    /\ hist' = << >>
    /\ seen' = {}
    /\ statusCalls' = 0
    /\ pollRes' = NoPoll
    /\ result' = NoResult
    /\ UNCHANGED <<conn, remote, directs, procs>>
    /\ UNCHANGED <<retryVars, extractVars, genVars, newVars, concVars>>

\* the caller's context is cancelled or its deadline passes
CallerCancel ==
    /\ ~Crashed
    /\ pc \in {"uploading", "select", "getting"}
    /\ ctxErr = "none"
    /\ \E e \in {"Canceled", "DeadlineExceeded"} : ctxErr' = e
    /\ UNCHANGED <<conn, panic, remote, uploads, directs, pc, fileName, tickLeft,
                   tickPending, timeoutLeft, dropped, lateTicks, hist, seen, statusCalls, pollRes, result, procs>>
    /\ UNCHANGED <<retryVars, extractVars, genVars, newVars, concVars>>

\* Files.Upload succeeds: the server assigns a name; waitForFileActive starts
\* its ticker and its timeout
FilesUploadOk ==
    /\ ~Crashed
    /\ pc = "uploading"
    /\ Cardinality(Assigned) < Len(NameSeq)
    /\ LET n == NameSeq[Cardinality(Assigned) + 1] IN
        /\ remote' = [remote EXCEPT ![n] = "stored"]
        /\ fileName' = n
    /\ tickLeft' = PollingInterval
    /\ tickPending' = FALSE
    /\ timeoutLeft' = PollingTimeout
    /\ dropped' = FALSE
    /\ lateTicks' = 0
    /\ pc' = "select"
    /\ UNCHANGED <<conn, panic, uploads, directs, ctxErr, hist, seen, statusCalls,
                   pollRes, result, procs>>
    /\ UNCHANGED <<retryVars, extractVars, genVars, newVars, concVars>>

\* Files.Upload fails: UploadFile returns
FilesUploadFails ==
    /\ ~Crashed
    /\ pc = "uploading"
    /\ \E e \in RemoteCallErrs("caller", 0) :
        result' = [uri |-> "", name |-> "", err |-> UploadFailedErr(e)]
    /\ pc' = "done"
    /\ UNCHANGED <<conn, panic, remote, uploads, directs, ctxErr, fileName, tickLeft,
                   tickPending, timeoutLeft, dropped, lateTicks, hist, seen, statusCalls, pollRes, procs>>
    /\ UNCHANGED <<retryVars, extractVars, genVars, newVars, concVars>>

\* select: case <-ctx.Done()
SelectCtxDone ==
    /\ ~Crashed
    /\ pc = "select"
    /\ ctxErr # "none"
    /\ pollRes' = [uri |-> "", err |-> PollCanceledErr(fileName, ctxErr)]
    /\ pc' = "waited"
    /\ StopTimers
    /\ UNCHANGED <<conn, panic, remote, uploads, directs, ctxErr, fileName, hist, seen,
                   statusCalls, result, procs>>
    /\ UNCHANGED <<retryVars, extractVars, genVars, newVars, concVars>>

\* select: case <-timeout
SelectTimeout ==
    /\ ~Crashed
    /\ pc = "select"
    /\ timeoutLeft = 0
    /\ pollRes' = [uri |-> "", err |-> PollTimeoutErr(fileName)]
    /\ pc' = "waited"
    /\ StopTimers
    /\ UNCHANGED <<conn, panic, remote, uploads, directs, ctxErr, fileName, hist, seen,
                   statusCalls, result, procs>>
    /\ UNCHANGED <<retryVars, extractVars, genVars, newVars, concVars>>

\* select: case <-ticker.C, up to the call of Files.Get
SelectTick ==
    /\ ~Crashed
    /\ pc = "select"
    /\ tickPending
    /\ tickPending' = FALSE
    /\ statusCalls' = IF statusCalls <= MaxHist THEN statusCalls + 1 ELSE statusCalls
    /\ pc' = "getting"
    /\ UNCHANGED <<conn, panic, remote, uploads, directs, ctxErr, fileName, tickLeft,
                   timeoutLeft, dropped, lateTicks, hist, seen, pollRes, result, procs>>
    /\ UNCHANGED <<retryVars, extractVars, genVars, newVars, concVars>>

\* the same switch returning no URI for an active file
PollOnStatusNoUri(name, resp) ==
    CASE resp.state = "ACTIVE" ->
            [ends |-> TRUE, res |-> [uri |-> "", err |-> Nil]]
      [] resp.state = "FAILED" ->
            [ends |-> TRUE, res |-> [uri |-> "", err |-> ServerFailedErr(name)]]
      [] OTHER ->
            [ends |-> FALSE, res |-> NoPoll]

\* the same switch giving up on a state it does not know
PollOnStatusStrict(name, resp) ==
    CASE resp.state = "ACTIVE" ->
            [ends |-> TRUE, res |-> [uri |-> resp.uri, err |-> Nil]]
      [] resp.state = "PROCESSING" ->
            [ends |-> FALSE, res |-> NoPoll]
      [] OTHER ->
            [ends |-> TRUE, res |-> [uri |-> "", err |-> ServerFailedErr(name)]]

\* the switch on f.State: whether the loop ends, and with what
PollOnStatus(name, resp) ==
    CASE resp.state = "ACTIVE" ->
            [ends |-> TRUE, res |-> [uri |-> resp.uri, err |-> Nil]]
      [] resp.state = "FAILED" ->
            [ends |-> TRUE, res |-> [uri |-> "", err |-> ServerFailedErr(name)]]
      [] OTHER ->
            [ends |-> FALSE, res |-> NoPoll]

\* Files.Get answers with the file's state
FilesGetOk ==
    /\ ~Crashed
    /\ pc = "getting"
    /\ remote[fileName] = "stored"
    /\ \E resp \in GetResponses :
        LET out == PollOnStatus(fileName, resp) IN
        /\ hist' = IF Len(hist) < MaxHist THEN Append(hist, resp) ELSE hist
        /\ seen' = seen \cup {resp.state}
        /\ pollRes' = out.res
        /\ IF out.ends
             THEN pc' = "waited" /\ StopTimers
             ELSE pc' = "select" /\ UNCHANGED <<tickLeft, tickPending, timeoutLeft, dropped, lateTicks>>
    /\ UNCHANGED <<conn, panic, remote, uploads, directs, ctxErr, fileName,
                   statusCalls, result, procs>>
    /\ UNCHANGED <<retryVars, extractVars, genVars, newVars, concVars>>

\* a failed Files.Get is tried again at the next tick
FilesGetFailsRetried ==
    /\ ~Crashed
    /\ pc = "getting"
    /\ pc' = "select"
    /\ UNCHANGED <<conn, panic, remote, uploads, directs, ctxErr, fileName, tickLeft,
                   tickPending, timeoutLeft, dropped, lateTicks, hist, seen,
                   statusCalls, pollRes, result, procs>>
    /\ UNCHANGED <<retryVars, extractVars, genVars, newVars, concVars>>

\* Files.Get fails
FilesGetFails ==
    /\ ~Crashed
    /\ pc = "getting"
    /\ \E e \in RemoteCallErrs("caller", 0) :
        pollRes' = [uri |-> "", err |-> StatusCheckFailedErr(fileName, e)]
    /\ pc' = "waited"
    /\ StopTimers
    /\ UNCHANGED <<conn, panic, remote, uploads, directs, ctxErr, fileName, hist, seen,
                   statusCalls, result, procs>>
    /\ UNCHANGED <<retryVars, extractVars, genVars, newVars, concVars>>

\* a DeleteFile execution: a cleanup goroutine or a direct call
NewProc(kind, by, name, ctx) ==
    [kind |-> kind, by |-> by, name |-> name, ctx |-> ctx, pc |-> "spawned",
     left |-> AsyncCleanupTimeout, issued |-> 0, err |-> Nil, warned |-> FALSE]

\* the context asyncDelete runs DeleteFile under
InheritedCtx == "caller"

AsyncDeleteCtx == "fresh"

\* DeleteFile called in UploadFile's own goroutine: the request is out
\* before UploadFile goes on
asyncDeleteInline(by, name) ==
    [NewProc("cleanup", by, name, InheritedCtx) EXCEPT !.pc = "deleting", !.issued = 1]

\* asyncDelete(fileName): the goroutine it starts
asyncDelete(by, name) == NewProc("cleanup", by, name, AsyncDeleteCtx)

\* the asyncDelete calls UploadFile makes once waitForFileActive has returned
CleanupNever(name, res) == << >>

CleanupUnlessCancelled(name, res) ==
    IF res.err # Nil /\ ~ErrorsIs(res.err, Canceled) /\ ~ErrorsIs(res.err, DeadlineExceeded)
        THEN <<name>> ELSE << >>

CleanupTwice(name, res) == IF res.err # Nil THEN <<name, name>> ELSE << >>

CleanupAlways(name, res) == <<name>>

CleanupCalls(name, res) == IF res.err # Nil THEN <<name>> ELSE << >>

\* the name is returned together with the error
UploadFileResultPartial(name, res) ==
    IF res.err # Nil
        THEN [uri |-> "", name |-> name, err |-> WaitFailedErr(name, res.err)]
        ELSE [uri |-> res.uri, name |-> name, err |-> Nil]

\* what UploadFile returns once waitForFileActive has returned
UploadFileResult(name, res) ==
    IF res.err # Nil
        THEN [uri |-> "", name |-> "", err |-> WaitFailedErr(name, res.err)]
        ELSE [uri |-> res.uri, name |-> name, err |-> Nil]

\* UploadFile after waitForFileActive: cleanup on error, then return
UploadFileReturns ==
    /\ ~Crashed
    /\ pc = "waited"
    /\ procs' = procs \o [i \in 1..Len(CleanupCalls(fileName, pollRes)) |->
                            asyncDelete(uploads, CleanupCalls(fileName, pollRes)[i])]
    /\ result' = UploadFileResult(fileName, pollRes)
    /\ pc' = "done"
    /\ UNCHANGED <<conn, panic, remote, uploads, directs, ctxErr, fileName, tickLeft,
                   tickPending, timeoutLeft, dropped, lateTicks, hist, seen, statusCalls, pollRes>>
    /\ UNCHANGED <<retryVars, extractVars, genVars, newVars, concVars>>

-----------------------------------------------------------------------------
(* DeleteFile and asyncDelete (file_api.go).                               *)

\* DeleteFile returned e; a cleanup goroutine logs a warning when e # nil.
\* cancel() releases the context's timer: what is kept of it is whether it
\* had run out
FinishSilent(p, e) ==
    [p EXCEPT !.pc = "done", !.err = e, !.warned = FALSE,
              !.left = IF p.left = 0 THEN 0 ELSE AsyncCleanupTimeout]

\* a failed delete is sent once more before the goroutine gives up
FinishRetrying(p, e) ==
    IF e # Nil /\ p.issued < 2
        THEN [p EXCEPT !.issued = p.issued + 1]
        ELSE [p EXCEPT !.pc = "done", !.err = e, !.warned = (p.kind = "cleanup" /\ e # Nil),
                       !.left = IF p.left = 0 THEN 0 ELSE AsyncCleanupTimeout]

Finish(p, e) ==
    [p EXCEPT !.pc = "done", !.err = e, !.warned = (p.kind = "cleanup" /\ e # Nil),
              !.left = IF p.left = 0 THEN 0 ELSE AsyncCleanupTimeout]

\* the guard of DeleteFile: nothing to delete
DeleteFileSkipsNothing(name) == FALSE

DeleteFileSkips(name) == name = ""

\* DeleteFile dereferences c.client
DeleteFilePanics(p) == ~DeleteFileSkips(p.name) /\ ~conn

\* DeleteFile up to the call of Files.Delete: a request is sent unless the
\* context is already done
DeleteFileBegin(p) ==
    IF DeleteFileSkips(p.name) THEN Finish(p, Nil)
    ELSE IF CtxDone(p.ctx, p.left)
        THEN Finish(p, DeleteFailedErr(p.name, <<CtxErrOf(p.ctx)>>))
    ELSE [p EXCEPT !.pc = "deleting", !.issued = p.issued + 1]

\* an unwrapped transport failure
DeleteFileErrBare(name, e) == e

\* the error DeleteFile returns when Files.Delete failed with e
DeleteFileErr(name, e) == DeleteFailedErr(name, e)

\* the caller calls DeleteFile(context.Background(), name)
DeleteFileCall ==
    /\ ~Crashed
    /\ directs < MaxDirect
    /\ directs' = directs + 1
    /\ \E name \in Names \cup {""} :
        LET p == NewProc("direct", 0, name, "background") IN
        IF DeleteFilePanics(p)
            THEN panic' = <<"DeleteFile", name>> /\ UNCHANGED procs
            ELSE procs' = Append(procs, DeleteFileBegin(p)) /\ UNCHANGED panic
    /\ UNCHANGED <<conn, remote, uploads, pc, ctxErr, fileName, tickLeft, tickPending,
                   timeoutLeft, dropped, lateTicks, hist, seen, statusCalls, pollRes, result>>
    /\ UNCHANGED <<retryVars, extractVars, genVars, newVars, concVars>>

\* asyncDelete("") is called on its own (TestAsyncDelete)
AsyncDeleteCall ==
    /\ ~Crashed
    /\ directs < MaxDirect
    /\ directs' = directs + 1
    /\ procs' = Append(procs, asyncDelete(0, ""))
    /\ UNCHANGED <<conn, panic, remote, uploads, pc, ctxErr, fileName, tickLeft,
                   tickPending, timeoutLeft, dropped, lateTicks, hist, seen, statusCalls, pollRes, result>>
    /\ UNCHANGED <<retryVars, extractVars, genVars, newVars, concVars>>

\* UploadFile has returned a name and the caller calls
\* DeleteFile(context.Background(), name) with it (a failed UploadFile returns
\* no name). DeleteFile keeps no record of earlier calls, so the caller may
\* do this again once its earlier DeleteFile call has returned
DeleteReturned ==
    /\ ~Crashed
    /\ pc = "done"
    /\ result.name # ""
    /\ \A i \in 1..Len(procs) : procs[i].kind = "direct" => procs[i].pc = "done"
    /\ directs < MaxDirect
    /\ directs' = directs + 1
    /\ LET p == NewProc("direct", uploads, result.name, "background") IN
        IF DeleteFilePanics(p)
            THEN panic' = <<"DeleteFile", result.name>> /\ UNCHANGED procs
            ELSE procs' = Append(procs, DeleteFileBegin(p)) /\ UNCHANGED panic
    /\ UNCHANGED <<conn, remote, uploads, pc, ctxErr, fileName, tickLeft, tickPending,
                   timeoutLeft, dropped, lateTicks, hist, seen, statusCalls, pollRes, result>>
    /\ UNCHANGED <<retryVars, extractVars, genVars, newVars, concVars>>

\* UploadFile has returned an error and the caller calls
\* DeleteFile(context.Background(), name) with the name it got back, once
DeleteAfterFailure ==
    /\ ~Crashed
    /\ pc = "done"
    /\ result.err # Nil
    /\ \A i \in 1..Len(procs) : ~(procs[i].kind = "direct" /\ procs[i].by = uploads)
    /\ directs < MaxDirect
    /\ directs' = directs + 1
    /\ LET p == NewProc("direct", uploads, result.name, "background") IN
        IF DeleteFilePanics(p)
            THEN panic' = <<"DeleteFile", result.name>> /\ UNCHANGED procs
            ELSE procs' = Append(procs, DeleteFileBegin(p)) /\ UNCHANGED panic
    /\ UNCHANGED <<conn, remote, uploads, pc, ctxErr, fileName, tickLeft, tickPending,
                   timeoutLeft, dropped, lateTicks, hist, seen, statusCalls, pollRes, result>>
    /\ UNCHANGED <<retryVars, extractVars, genVars, newVars, concVars>>

\* the cleanup goroutine runs: it creates its context and calls DeleteFile
AsyncDeleteRun ==
    /\ ~Crashed
    /\ \E i \in 1..Len(procs) :
        /\ procs[i].pc = "spawned"
        /\ IF DeleteFilePanics(procs[i])
             THEN panic' = <<"DeleteFile", procs[i].name>> /\ UNCHANGED procs
             ELSE /\ procs' = [procs EXCEPT ![i] = DeleteFileBegin(procs[i])]
                  /\ UNCHANGED panic
    /\ UNCHANGED <<conn, remote, uploads, directs, pc, ctxErr, fileName, tickLeft,
                   tickPending, timeoutLeft, dropped, lateTicks, hist, seen, statusCalls, pollRes, result>>
    /\ UNCHANGED <<retryVars, extractVars, genVars, newVars, concVars>>

\* Files.Delete succeeds: the file is gone
FilesDeleteOk ==
    /\ ~Crashed
    /\ \E i \in 1..Len(procs) :
        /\ procs[i].pc = "deleting"
        /\ procs[i].name \in Names
        /\ remote[procs[i].name] = "stored"
        /\ remote' = [remote EXCEPT ![procs[i].name] = "deleted"]
        /\ procs' = [procs EXCEPT ![i] = Finish(procs[i], Nil)]
    /\ UNCHANGED <<conn, panic, uploads, directs, pc, ctxErr, fileName, tickLeft,
                   tickPending, timeoutLeft, dropped, lateTicks, hist, seen, statusCalls, pollRes, result>>
    /\ UNCHANGED <<retryVars, extractVars, genVars, newVars, concVars>>

\* Files.Delete fails: a transport failure, or the call's context is done
FilesDeleteFails ==
    /\ ~Crashed
    /\ \E i \in 1..Len(procs) :
        /\ procs[i].pc = "deleting"
        /\ \E e \in RemoteCallErrs(procs[i].ctx, procs[i].left) :
            procs' = [procs EXCEPT ![i] =
                        Finish(procs[i], DeleteFileErr(procs[i].name, e))]
    /\ UNCHANGED <<conn, panic, remote, uploads, directs, pc, ctxErr, fileName,
                   tickLeft, tickPending, timeoutLeft, dropped, lateTicks, hist, seen, statusCalls, pollRes, result>>
    /\ UNCHANGED <<retryVars, extractVars, genVars, newVars, concVars>>

-----------------------------------------------------------------------------
(* Time.                                                                   *)

PollActive == pc \in {"select", "getting"}

\* a case of the select is ready
SelectReady == pc = "select" /\ (ctxErr # "none" \/ timeoutLeft = 0 \/ tickPending)

CleanupTimed(p) == p.pc = "deleting" /\ p.ctx = "fresh" /\ p.left > 0

\* the running timers' remaining times
Timers ==
    (IF PollActive THEN {tickLeft} ELSE {})
    \cup (IF PollActive /\ timeoutLeft > 0 THEN {timeoutLeft} ELSE {})
    \cup {procs[i].left : i \in {j \in 1..Len(procs) : CleanupTimed(procs[j])}}

\* time passes up to the next timer event
Advance ==
    /\ ~Crashed
    /\ ~SelectReady
    /\ Timers # {}
    /\ LET d == Min(Timers) IN
        /\ IF PollActive
             THEN /\ tickLeft' = IF tickLeft = d THEN PollingInterval ELSE tickLeft - d
                  /\ tickPending' = (tickPending \/ tickLeft = d)
                  /\ timeoutLeft' = IF timeoutLeft > d THEN timeoutLeft - d ELSE 0
                  /\ dropped' = (dropped \/ (tickPending /\ tickLeft = d))
                  /\ lateTicks' = IF timeoutLeft = 0 /\ tickLeft = d /\ ~tickPending
                                     THEN 1 ELSE lateTicks
             ELSE UNCHANGED <<tickLeft, tickPending, timeoutLeft, dropped, lateTicks>>
        /\ procs' = [i \in 1..Len(procs) |->
                        IF CleanupTimed(procs[i])
                            THEN [procs[i] EXCEPT !.left = procs[i].left - d]
                            ELSE procs[i]]
    /\ UNCHANGED <<conn, panic, remote, uploads, directs, pc, ctxErr, fileName,
                   hist, seen, statusCalls, pollRes, result>>
    /\ UNCHANGED <<retryVars, extractVars, genVars, newVars, concVars>>

-----------------------------------------------------------------------------
(* Config and NewClient (config.go, client.go).                            *)

\* types.go: the defaults, delays in seconds, the temperature in tenths
DefaultMaxRetries == 1

DefaultInitialDelay == 30

DefaultMaxDelay == 120

DefaultTemperature == 7

ErrConfigRequired == Layer("ErrConfigRequired", "", 0, "")

ErrExclusiveConfig == Layer("ErrExclusiveConfig", "", 0, "")

ErrIncompleteVertexConfig == Layer("ErrIncompleteVertexConfig", "", 0, "")

ErrInvalidTemperature == Layer("ErrInvalidTemperature", "", 0, "")

\* a *float32, in tenths
NilTemperature == [nil |-> TRUE, v |-> 0]

Temperatures == {NilTemperature} \cup {[nil |-> FALSE, v |-> t] : t \in {-1, 0, 15, 20, 21}}

Config(apiKey, projectID, locationID, temperature, maxRetries, initialDelay, maxDelay) ==
    [APIKey |-> apiKey, ProjectID |-> projectID, LocationID |-> locationID,
     Temperature |-> temperature, MaxRetries |-> maxRetries,
     InitialDelay |-> initialDelay, MaxDelay |-> maxDelay]

\* the zero Config
ZeroConfig == Config("", "", "", NilTemperature, 0, 0, 0)

\* the Configs NewClient is called with: MaxRetries is a uint64, the delays
\* are signed
Configs ==
    {Config(k, p, l, t, r, i, m) :
        k \in {"", "dummy-key"}, p \in {"", "my-project"}, l \in {"", "asia-northeast1"},
        t \in Temperatures, r \in {0, 1, 5}, i \in {-10, 0, 10}, m \in {-60, 0, 60}}

isVertexAI(c) == c.ProjectID # "" /\ c.LocationID # ""

isGeminiAPI(c) == c.APIKey # ""

isIncompleteVertex(c) ==
    LET hasAny == c.ProjectID # "" \/ c.LocationID # "" IN
    hasAny /\ ~isVertexAI(c)

validateTemperature(c) ==
    IF c.Temperature.nil THEN Nil
    ELSE IF c.Temperature.v < 0 \/ c.Temperature.v > 20
        THEN Wrap(Layer("InvalidTemperatureValue", "", c.Temperature.v, ""),
                  <<ErrInvalidTemperature>>)
    ELSE Nil

\* the completeness check made before the exclusiveness check
validateIncompleteFirst(c) ==
    IF isIncompleteVertex(c) THEN <<ErrIncompleteVertexConfig>>
    ELSE IF (isVertexAI(c) \/ isIncompleteVertex(c)) /\ isGeminiAPI(c)
        THEN <<ErrExclusiveConfig>>
    ELSE IF ~isVertexAI(c) /\ ~isGeminiAPI(c) THEN <<ErrConfigRequired>>
    ELSE validateTemperature(c)

validate(c) ==
    IF (isVertexAI(c) \/ isIncompleteVertex(c)) /\ isGeminiAPI(c)
        THEN <<ErrExclusiveConfig>>
    ELSE IF isIncompleteVertex(c) THEN <<ErrIncompleteVertexConfig>>
    ELSE IF ~isVertexAI(c) /\ ~isGeminiAPI(c) THEN <<ErrConfigRequired>>
    ELSE validateTemperature(c)

getTemperature(c) == IF c.Temperature.nil THEN DefaultTemperature ELSE c.Temperature.v

\* the genai.ClientConfig (NoClientCfg: none was built)
ClientConfig(apiKey, project, location, backend) ==
    [APIKey |-> apiKey, Project |-> project, Location |-> location, Backend |-> backend]

NoClientCfg == ClientConfig("", "", "", "none")

toClientConfig(c) ==
    IF isVertexAI(c)
        THEN ClientConfig("", c.ProjectID, c.LocationID, "BackendVertexAI")
        ELSE ClientConfig(c.APIKey, "", "", "BackendGeminiAPI")

\* the retry.Config
RetryConfig(maxRetries, initialInterval, maxInterval) ==
    [MaxRetries |-> maxRetries, InitialInterval |-> initialInterval,
     MaxInterval |-> maxInterval]

\* the Config's values taken as they are
buildRetryConfigAsIs(c) == RetryConfig(c.MaxRetries, c.InitialDelay, c.MaxDelay)

buildRetryConfig(c) ==
    RetryConfig(IF c.MaxRetries > 0 THEN c.MaxRetries ELSE DefaultMaxRetries,
                IF c.InitialDelay > 0 THEN c.InitialDelay ELSE DefaultInitialDelay,
                IF c.MaxDelay > 0 THEN c.MaxDelay ELSE DefaultMaxDelay)

\* the *Client (NilClient: nil)
NilClient == [nil |-> TRUE, temperature |-> 0, retryConfig |-> RetryConfig(0, 0, 0),
              backend |-> "none"]

NewClientResult(c, cc) ==
    [nil |-> FALSE, temperature |-> getTemperature(c),
     retryConfig |-> buildRetryConfig(c), backend |-> cc.Backend]

NoNewOut == [client |-> NilClient, err |-> Nil]

\* the failures of genai.NewClient
NewClientErrs == {<<Layer("genai.NewClient", "", 0, "")>>}

NewClientFailedErr(e) == Wrap(Layer("NewClientFailed", "", 0, ""), e)

\* NewClient(ctx, cfg) up to the call of genai.NewClient
NewClientCall ==
    /\ newPc = "idle"
    /\ \E c \in Configs :
        /\ cfg' = c
        /\ IF validate(c) # Nil
             THEN /\ newOut' = [client |-> NilClient, err |-> validate(c)]
                  /\ newPc' = "done"
                  /\ UNCHANGED clientCfg
             ELSE /\ clientCfg' = toClientConfig(c)
                  /\ newPc' = "creating"
                  /\ UNCHANGED newOut
    /\ UNCHANGED <<fileVars, retryVars, extractVars, genVars, concVars>>

\* genai.NewClient returns a client
GenaiNewClientOk ==
    /\ newPc = "creating"
    /\ newOut' = [client |-> NewClientResult(cfg, clientCfg), err |-> Nil]
    /\ newPc' = "done"
    /\ UNCHANGED <<cfg, clientCfg>>
    /\ UNCHANGED <<fileVars, retryVars, extractVars, genVars, concVars>>

\* genai.NewClient fails
GenaiNewClientFails ==
    /\ newPc = "creating"
    /\ \E e \in NewClientErrs :
        newOut' = [client |-> NilClient, err |-> NewClientFailedErr(e)]
    /\ newPc' = "done"
    /\ UNCHANGED <<cfg, clientCfg>>
    /\ UNCHANGED <<fileVars, retryVars, extractVars, genVars, concVars>>

-----------------------------------------------------------------------------
(* Two UploadFile calls running concurrently on one client (file_api.go).  *)
(* Each call has its own ctx, file.Name and results; the calls share the   *)
(* remote service and the cleanup goroutines.  The poll loop of a call     *)
(* is one step here, drawn from the return statements of waitForFileActive;*)
(* its timing is what Spec models.                                         *)

Callers == {1, 2}

NoCall == [pc |-> "idle", ctx |-> "none", name |-> "", res |-> NoPoll, result |-> NoResult]

NoCalls == [k \in Callers |-> NoCall]

InitConcurrentOff == calls = NoCalls

\* one context shared by every call
CallCtxShared(k) ==
    IF \E j \in Callers : calls[j].ctx # "none"
        THEN calls[CHOOSE j \in Callers : calls[j].ctx # "none"].ctx
        ELSE "none"

\* ctx.Err() of the ctx parameter of call k
CallCtx(k) == calls[k].ctx

\* the errors a remote call made under the ctx of call k can return
CallErrs(k) ==
    TransportErrs \cup (IF CallCtx(k) # "none" THEN {<<CtxLayer(CallCtx(k))>>} ELSE {})

\* what waitForFileActive(ctx, file.Name) of call k can return
PollOutcomes(k) ==
    LET n == calls[k].name IN
    (IF CallCtx(k) # "none"
        THEN {[uri |-> "", err |-> PollCanceledErr(n, CallCtx(k))]} ELSE {})
    \cup {[uri |-> "", err |-> PollTimeoutErr(n)]}
    \cup {[uri |-> "", err |-> StatusCheckFailedErr(n, e)] : e \in CallErrs(k)}
    \cup (IF remote[n] = "stored"
            THEN {PollOnStatus(n, r).res : r \in {g \in GetResponses : PollOnStatus(n, g).ends}}
            ELSE {})

\* a goroutine calls UploadFile
UploadFileCallConc ==
    /\ ~Crashed
    /\ \E k \in Callers :
        /\ calls[k].pc = "idle"
        /\ calls' = [calls EXCEPT ![k].pc = "uploading"]
    /\ UNCHANGED <<fileVars, retryVars, extractVars, genVars, newVars>>

\* the context of one call is cancelled or its deadline passes
CallerCancelConc ==
    /\ ~Crashed
    /\ \E k \in Callers :
        /\ calls[k].pc \in {"uploading", "polling"}
        /\ calls[k].ctx = "none"
        /\ \E e \in {"Canceled", "DeadlineExceeded"} :
            calls' = [calls EXCEPT ![k].ctx = e]
    /\ UNCHANGED <<fileVars, retryVars, extractVars, genVars, newVars>>

\* Files.Upload of one call succeeds: the server assigns the next name
FilesUploadOkConc ==
    /\ ~Crashed
    /\ Cardinality(Assigned) < Len(NameSeq)
    /\ \E k \in Callers :
        /\ calls[k].pc = "uploading"
        /\ LET n == NameSeq[Cardinality(Assigned) + 1] IN
            /\ remote' = [remote EXCEPT ![n] = "stored"]
            /\ calls' = [calls EXCEPT ![k].name = n, ![k].pc = "polling"]
    /\ UNCHANGED <<conn, panic, uploads, directs, pc, ctxErr, fileName, tickLeft,
                   tickPending, timeoutLeft, dropped, lateTicks, hist, seen,
                   statusCalls, pollRes, result, procs>>
    /\ UNCHANGED <<retryVars, extractVars, genVars, newVars>>

\* Files.Upload of one call fails: that call returns
FilesUploadFailsConc ==
    /\ ~Crashed
    /\ \E k \in Callers :
        /\ calls[k].pc = "uploading"
        /\ \E e \in CallErrs(k) :
            calls' = [calls EXCEPT
                        ![k].result = [uri |-> "", name |-> "", err |-> UploadFailedErr(e)],
                        ![k].pc = "done"]
    /\ UNCHANGED <<fileVars, retryVars, extractVars, genVars, newVars>>

\* waitForFileActive of one call returns
WaitReturnsConc ==
    /\ ~Crashed
    /\ \E k \in Callers :
        /\ calls[k].pc = "polling"
        /\ \E r \in PollOutcomes(k) :
            calls' = [calls EXCEPT ![k].res = r, ![k].pc = "waited"]
    /\ UNCHANGED <<fileVars, retryVars, extractVars, genVars, newVars>>

\* UploadFile of one call after waitForFileActive: cleanup on error, then return
UploadFileReturnsConc ==
    /\ ~Crashed
    /\ \E k \in Callers :
        /\ calls[k].pc = "waited"
        /\ procs' = procs \o [i \in 1..Len(CleanupCalls(calls[k].name, calls[k].res)) |->
                        asyncDelete(k, CleanupCalls(calls[k].name, calls[k].res)[i])]
        /\ calls' = [calls EXCEPT
                        ![k].result = UploadFileResult(calls[k].name, calls[k].res),
                        ![k].pc = "done"]
    /\ UNCHANGED <<conn, panic, remote, uploads, directs, pc, ctxErr, fileName, tickLeft,
                   tickPending, timeoutLeft, dropped, lateTicks, hist, seen,
                   statusCalls, pollRes, result>>
    /\ UNCHANGED <<retryVars, extractVars, genVars, newVars>>

-----------------------------------------------------------------------------
(* Specifications.                                                         *)

InitNewClientOff ==
    /\ cfg = ZeroConfig
    /\ newPc = "off"
    /\ clientCfg = NoClientCfg
    /\ newOut = NoNewOut

InitFile ==
    /\ panic = << >>
    /\ remote = [n \in Names |-> "absent"]
    /\ uploads = 0
    /\ directs = 0
    /\ pc = "idle"
    /\ ctxErr = "none"
    /\ fileName = ""
    /\ tickLeft = PollingInterval
    /\ tickPending = FALSE
    /\ timeoutLeft = PollingTimeout
    /\ dropped = FALSE
    /\ lateTicks = 0
    /\ hist = << >>
    /\ seen = {}
    /\ statusCalls = 0
    /\ pollRes = NoPoll
    /\ result = NoResult
    /\ procs = << >>

\* no call of shouldRetry, extractTextFromResponse or GenerateContent
InitRetryOff ==
    /\ err = Nil
    /\ retryPc = "off"
    /\ retryOut = NoDecision

InitExtractOff ==
    /\ rawResp = NilResponse
    /\ extractPc = "off"
    /\ extractOut = NoExtract

InitGenerateOff ==
    /\ prompt = ""
    /\ genCtx = "none"
    /\ budget = 0
    /\ genPc = "off"
    /\ entered = FALSE
    /\ requests = 0
    /\ inFlight = 0
    /\ opLog = << >>
    /\ finalResp = NoFinalResp
    /\ genOut = NoGenOut
    /\ entry = "none"
    /\ optSeed = NilSeed
    /\ genConfig = NoConfig
    /\ sentConfig = NoConfig

\* UploadFile and its cleanup goroutines, on a client made by NewClient or
\* on the zero Client
Init ==
    /\ InitNewClientOff
    /\ InitConcurrentOff
    /\ conn \in BOOLEAN
    /\ InitFile
    /\ InitRetryOff
    /\ InitExtractOff
    /\ InitGenerateOff

Next ==
    \/ UploadFileCall
    \/ CallerCancel
    \/ FilesUploadOk
    \/ FilesUploadFails
    \/ SelectCtxDone
    \/ SelectTimeout
    \/ SelectTick
    \/ FilesGetOk
    \/ FilesGetFails
    \/ UploadFileReturns
    \/ AsyncDeleteRun
    \/ FilesDeleteOk
    \/ FilesDeleteFails
    \/ Advance

Spec == Init /\ [][Next]_vars

\* uploads followed by the caller's own DeleteFile calls
NextLifecycle ==
    \/ UploadFileCall
    \/ CallerCancel
    \/ FilesUploadOk
    \/ FilesUploadFails
    \/ SelectCtxDone
    \/ SelectTimeout
    \/ SelectTick
    \/ FilesGetOk
    \/ FilesGetFails
    \/ UploadFileReturns
    \/ DeleteReturned
    \/ AsyncDeleteRun
    \/ FilesDeleteOk
    \/ FilesDeleteFails
    \/ Advance

SpecLifecycle == Init /\ [][NextLifecycle]_vars

\* uploads, each failed one followed by the caller's DeleteFile calls with
\* the name it returned
NextFailed ==
    \/ UploadFileCall
    \/ CallerCancel
    \/ FilesUploadOk
    \/ FilesUploadFails
    \/ SelectCtxDone
    \/ SelectTimeout
    \/ SelectTick
    \/ FilesGetOk
    \/ FilesGetFails
    \/ UploadFileReturns
    \/ DeleteAfterFailure
    \/ AsyncDeleteRun
    \/ FilesDeleteOk
    \/ FilesDeleteFails
    \/ Advance

SpecFailed == Init /\ [][NextFailed]_vars

\* two UploadFile calls running concurrently on a client made by NewClient
InitConcurrent ==
    /\ InitNewClientOff
    /\ conn = TRUE
    /\ InitFile
    /\ InitRetryOff
    /\ InitExtractOff
    /\ InitGenerateOff
    /\ calls = NoCalls

NextConcurrent ==
    \/ UploadFileCallConc
    \/ CallerCancelConc
    \/ FilesUploadOkConc
    \/ FilesUploadFailsConc
    \/ WaitReturnsConc
    \/ UploadFileReturnsConc
    \/ AsyncDeleteRun
    \/ FilesDeleteOk
    \/ FilesDeleteFails
    \/ Advance

SpecConcurrent == InitConcurrent /\ [][NextConcurrent]_vars

\* DeleteFile and asyncDelete called on their own, with files of earlier
\* uploads on the server
InitDelete ==
    /\ InitNewClientOff
    /\ InitConcurrentOff
    /\ conn \in BOOLEAN
    /\ panic = << >>
    /\ remote \in [Names -> {"absent", "stored"}]
    /\ uploads = 0
    /\ directs = 0
    /\ pc = "idle"
    /\ ctxErr = "none"
    /\ fileName = ""
    /\ tickLeft = PollingInterval
    /\ tickPending = FALSE
    /\ timeoutLeft = PollingTimeout
    /\ dropped = FALSE
    /\ lateTicks = 0
    /\ hist = << >>
    /\ seen = {}
    /\ statusCalls = 0
    /\ pollRes = NoPoll
    /\ result = NoResult
    /\ procs = << >>
    /\ InitRetryOff
    /\ InitExtractOff
    /\ InitGenerateOff

NextDelete ==
    \/ DeleteFileCall
    \/ AsyncDeleteCall
    \/ AsyncDeleteRun
    \/ FilesDeleteOk
    \/ FilesDeleteFails

SpecDelete == InitDelete /\ [][NextDelete]_vars

\* NewClient called with one Config
InitNewClient ==
    /\ InitConcurrentOff
    /\ conn = FALSE
    /\ InitFile
    /\ InitRetryOff
    /\ InitExtractOff
    /\ InitGenerateOff
    /\ cfg = ZeroConfig
    /\ newPc = "idle"
    /\ clientCfg = NoClientCfg
    /\ newOut = NoNewOut

NextNewClient ==
    \/ NewClientCall
    \/ GenaiNewClientOk
    \/ GenaiNewClientFails

SpecNewClient == InitNewClient /\ [][NextNewClient]_vars

\* shouldRetry applied to one error
InitClassify ==
    /\ InitNewClientOff
    /\ InitConcurrentOff
    /\ conn = TRUE
    /\ InitFile
    /\ err \in ErrChains
    /\ retryPc = "input"
    /\ retryOut = NoDecision
    /\ InitExtractOff
    /\ InitGenerateOff

NextClassify == Classify

SpecClassify == InitClassify /\ [][NextClassify]_vars

\* extractTextFromResponse applied to one response
InitExtract ==
    /\ InitNewClientOff
    /\ InitConcurrentOff
    /\ conn = TRUE
    /\ InitFile
    /\ InitRetryOff
    /\ rawResp \in Responses
    /\ extractPc = "input"
    /\ extractOut = NoExtract
    /\ InitGenerateOff

NextExtract == Extract

SpecExtract == InitExtract /\ [][NextExtract]_vars

\* one GenerateContent call, on a client made by NewClient (with its retry
\* budget) or on the zero Client
InitGenerate ==
    /\ InitNewClientOff
    /\ InitConcurrentOff
    /\ conn \in BOOLEAN
    /\ InitFile
    /\ InitRetryOff
    /\ InitExtractOff
    /\ prompt = ""
    /\ genCtx = "none"
    /\ budget \in (IF conn THEN 1..MaxBudget ELSE {0})
    /\ genPc = "idle"
    /\ entered = FALSE
    /\ requests = 0
    /\ inFlight = 0
    /\ opLog = << >>
    /\ finalResp = NoFinalResp
    /\ genOut = NoGenOut
    /\ entry = "none"
    /\ optSeed = NilSeed
    /\ genConfig = NoConfig
    /\ sentConfig = NoConfig

NextGenerate ==
    \/ GenerateContentCall
    \/ GenerateWithPartsCall
    \/ GenCancel
    \/ OpSend
    \/ WireFails
    \/ WireOk
    \/ BackoffElapsed
    \/ BackoffCancelled

SpecGenerate == InitGenerate /\ [][NextGenerate]_vars

-----------------------------------------------------------------------------
(* Properties.                                                             *)

\* the cleanup goroutines the current UploadFile call started
Cleanups == {i \in 1..Len(procs) : procs[i].kind = "cleanup" /\ procs[i].by = uploads}

\* UploadFile has returned an error after the server had assigned a name
WaitFailed == pc = "done" /\ fileName # "" /\ result.err # Nil

\* C1: when the upload succeeded and the wait ended with an error of any
\* kind, UploadFile has started exactly one cleanup goroutine by the time
\* it returns the error, and that goroutine deletes exactly the name the
\* server assigned.
C1_CleanupDispatched ==
    WaitFailed =>
        /\ Cardinality(Cleanups) = 1
        /\ \A i \in Cleanups : procs[i].name = fileName

C1_Witness ==
    /\ WaitFailed
    /\ fileName = "files/a"
    /\ ErrorsIs(result.err, Canceled)
    /\ \E i \in Cleanups : procs[i].name = "files/a" /\ procs[i].pc = "spawned"

\* C2 as stated: once the cleanup of a failed upload has run, the file is
\* deleted on the server.
C2_NeverLeaked ==
    \A i \in 1..Len(procs) :
        (procs[i].kind = "cleanup" /\ procs[i].name \in Names /\ procs[i].pc = "done")
            => remote[procs[i].name] = "deleted"

\* cleanup goroutine i has run to its end: it sent one delete request, and
\* the file is deleted if that request succeeded; a failure was logged
CleanupRan(i) ==
    /\ procs[i].pc = "done"
    /\ procs[i].issued = 1
    /\ (procs[i].err = Nil => remote[procs[i].name] = "deleted")
    /\ (procs[i].err # Nil => procs[i].warned)

\* C2, amended: after an UploadFile call that obtained a name and then
\* failed, the cleanups started so far eventually have all run to their
\* end: one delete request was sent for the name, and the file is deleted
\* if that request succeeded (a failed delete is logged and the file stays).
C2_CleanupAttempted ==
    WaitFailed ~> (procs # << >> /\ \A i \in 1..Len(procs) : CleanupRan(i))

C2_Witness ==
    /\ WaitFailed
    /\ pollRes.err # Nil
    /\ pollRes.err[1].kind = "PollTimeout"
    /\ \E i \in Cleanups : procs[i].name = fileName /\ CleanupRan(i)
    /\ remote[fileName] = "deleted"

\* the goroutines are scheduled, and a remote delete returns (at the latest
\* when its context expires)
SpecFair ==
    /\ Spec
    /\ WF_vars(AsyncDeleteRun)
    /\ WF_vars(FilesDeleteOk \/ FilesDeleteFails)

\* C3: a cleanup goroutine runs under its own context.  Whatever the state
\* of the caller's context, once the goroutine has run with a name it has
\* sent the delete request; the request is never ended by the caller's
\* cancellation, and it ends with a deadline error only when the cleanup's
\* own AsyncCleanupTimeout has run out.
C3_FreshScope ==
    \A i \in 1..Len(procs) :
        (procs[i].kind = "cleanup" /\ procs[i].name # "") =>
            /\ procs[i].ctx = "fresh"
            /\ (procs[i].pc # "spawned" => procs[i].issued = 1)
            /\ ~ErrorsIs(procs[i].err, Canceled)
            /\ (ErrorsIs(procs[i].err, DeadlineExceeded) => procs[i].left = 0)

C3_Witness ==
    /\ WaitFailed
    /\ ctxErr = "Canceled"
    /\ ErrorsIs(pollRes.err, Canceled)
    /\ \E i \in Cleanups :
        /\ procs[i].name = fileName
        /\ procs[i].pc = "done"
        /\ procs[i].issued = 1
        /\ procs[i].err = Nil
        /\ procs[i].left > 0
        /\ remote[fileName] = "deleted"

\* the caller's context is done and no tick has fired yet
CancelledBeforeTick ==
    pc = "select" /\ ctxErr # "none" /\ ~tickPending /\ statusCalls = 0

\* C4: when the caller's context is done before any tick has fired, no
\* time passes and the next step of the poll is to return an error that
\* wraps the context's error, with no status call made; and an UploadFile call whose poll made
\* no status call returns an error wrapping the context's error and has
\* started the cleanup of the assigned name.
C4_CancelBeforeTick ==
    /\ [][(CancelledBeforeTick /\ <<pc, tickLeft>>' # <<pc, tickLeft>>) =>
            /\ pc' = "waited"
            /\ statusCalls' = 0
            /\ Len(pollRes'.err) = 2
            /\ pollRes'.err[1] = Layer("PollCanceled", fileName, 0, "")
            /\ pollRes'.err[2] = CtxLayer(ctxErr)]_vars
    /\ []((pc = "done" /\ fileName # "" /\ statusCalls = 0) =>
            /\ ctxErr # "none"
            /\ result.uri = "" /\ result.name = ""
            /\ ErrorsIs(result.err, CtxLayer(ctxErr))
            /\ \E i \in Cleanups : procs[i].name = fileName)

C4_Witness ==
    /\ pc = "done"
    /\ fileName = "files/a"
    /\ statusCalls = 0
    /\ ctxErr = "Canceled"
    /\ ErrorsIs(pollRes.err, Canceled)
    /\ ErrorsIs(result.err, Canceled)
    /\ \E i \in Cleanups : procs[i].name = "files/a"

\* the poll has returned, the caller never cancelled, every status call
\* answered, and every answer was PROCESSING
OnlyProcessing ==
    /\ pc \in {"waited", "done"}
    /\ fileName # ""
    /\ ctxErr = "none"
    /\ seen = {"PROCESSING"}
    /\ (pollRes.err # Nil => pollRes.err[1].kind # "StatusCheckFailed")

\* C5: when every status call answered PROCESSING and the caller never
\* cancelled, the poll returns only once PollingTimeout has run out since
\* the poll began, with a timeout error that names the file and the bound;
\* UploadFile returns an error and has started the cleanup of the name.
C5_TimeoutWhileProcessing ==
    /\ [](OnlyProcessing =>
            /\ pollRes.uri = ""
            /\ pollRes.err = <<Layer("PollTimeout", fileName, PollingTimeout, "")>>
            /\ (pc = "done" =>
                    /\ result.uri = "" /\ result.name = ""
                    /\ result.err # Nil
                    /\ \E i \in Cleanups : procs[i].name = fileName))
    /\ [][(pc = "select" /\ pc' = "waited" /\ ctxErr = "none") =>
            (timeoutLeft = 0 /\ pollRes'.err # Nil
                /\ pollRes'.err[1].bound = PollingTimeout)]_vars

C5_Witness ==
    /\ OnlyProcessing
    /\ pc = "done"
    /\ statusCalls > MaxHist
    /\ pollRes.err[1].kind = "PollTimeout"
    /\ pollRes.err[1].name = fileName
    /\ \E i \in Cleanups : procs[i].name = fileName

Processing == [state |-> "PROCESSING", uri |-> ""]

Active(u) == [state |-> "ACTIVE", uri |-> u]

\* C6: for the answers PROCESSING, PROCESSING, ACTIVE(uri) and no
\* cancellation, the poll returns (uri, nil) having made exactly three
\* status calls, and UploadFile returns the uri and the name and starts no
\* cleanup.
C6_ThreeTicks ==
    \A u \in URIs :
        (/\ pc \in {"waited", "done"}
         /\ ctxErr = "none"
         /\ hist = <<Processing, Processing, Active(u)>>) =>
            /\ statusCalls = 3
            /\ pollRes = [uri |-> u, err |-> Nil]
            /\ Cleanups = {}
            /\ (pc = "done" => result = [uri |-> u, name |-> fileName, err |-> Nil])

C6_Witness ==
    /\ pc = "done"
    /\ ctxErr = "none"
    /\ hist = <<Processing, Processing, Active("x")>>
    /\ statusCalls = 3
    /\ result = [uri |-> "x", name |-> fileName, err |-> Nil]

\* C7: DeleteFile("") returns nil and sends no delete request, on a client
\* with or without a connection and on every call; asyncDelete("") sends no
\* request either, logs no failure, and neither of them panics.
C7_EmptyNameNoop ==
    /\ \A i \in 1..Len(procs) :
        procs[i].name = "" =>
            /\ procs[i].issued = 0
            /\ procs[i].err = Nil
            /\ ~procs[i].warned
            /\ procs[i].pc \in {"spawned", "done"}
            /\ (procs[i].kind = "direct" => procs[i].pc = "done")
    /\ (Crashed => panic[2] # "")

C7_Witness ==
    /\ ~conn
    /\ ~Crashed
    /\ Len(procs) = 2
    /\ \A i \in 1..2 :
        procs[i] = [kind |-> "direct", by |-> 0, name |-> "", ctx |-> "background",
                    pc |-> "done", left |-> AsyncCleanupTimeout, issued |-> 0,
                    err |-> Nil, warned |-> FALSE]

\* C8: DeleteFile with a name sends exactly one delete request for it; it
\* returns nil when the request succeeded, and otherwise an error that
\* names the file and wraps the transport failure.
C8_DeleteNamed ==
    \A i \in 1..Len(procs) :
        (procs[i].kind = "direct" /\ procs[i].name # "") =>
            /\ procs[i].name \in Names
            /\ procs[i].pc \in {"deleting", "done"}
            /\ procs[i].issued = 1
            /\ (procs[i].pc = "deleting" => procs[i].err = Nil)
            /\ (procs[i].pc = "done" =>
                    \/ procs[i].err = Nil /\ remote[procs[i].name] = "deleted"
                    \/ /\ Len(procs[i].err) = 2
                       /\ procs[i].err[1] = Layer("DeleteFailed", procs[i].name, 0, "")
                       /\ <<procs[i].err[2]>> \in TransportErrs)

C8_Witness ==
    \E i \in 1..Len(procs) :
        /\ procs[i].kind = "direct"
        /\ procs[i].name = "files/a"
        /\ procs[i].pc = "done"
        /\ procs[i].issued = 1
        /\ procs[i].err = <<Layer("DeleteFailed", "files/a", 0, ""),
                            StatusErr("Unavailable")>>
        /\ remote["files/a"] = "stored"

\* C9: when the upload call itself fails, UploadFile returns that failure
\* at once: no name was assigned, the poll never ran, no status call was
\* made and no cleanup was started.
C9_UploadFailure ==
    /\ [][(pc = "uploading" /\ fileName' = "") => pc' \in {"uploading", "done"}]_vars
    /\ []((pc = "done" /\ fileName = "") =>
            /\ result.uri = "" /\ result.name = ""
            /\ Len(result.err) = 2
            /\ result.err[1] = Layer("UploadFailed", "", 0, "")
            /\ <<result.err[2]>> \in
                    TransportErrs \cup {<<Canceled>>, <<DeadlineExceeded>>}
            /\ statusCalls = 0
            /\ hist = << >>
            /\ pollRes = NoPoll
            /\ Cleanups = {})

C9_Witness ==
    /\ pc = "done"
    /\ fileName = ""
    /\ result.err = <<Layer("UploadFailed", "", 0, ""), EOF>>
    /\ statusCalls = 0
    /\ procs = << >>

\* C10: shouldRetry returns false for every error that is an
\* APIResponseError or wraps one, and the type check is the check that
\* returns, whatever transport status the error also carries.
C10_LogicalNeverRetried ==
    (retryPc = "classified" /\ \E i \in 1..Len(err) : err[i] = APIResponseErr) =>
        /\ retryOut.retry = FALSE
        /\ retryOut.by = "logical"

C10_Witness ==
    /\ retryPc = "classified"
    /\ err = <<StatusErr("Unavailable"), APIResponseErr>>
    /\ retryOut = [retry |-> FALSE, by |-> "logical"]

\* the error has an APIResponseError in its chain
IsLogical(e) == \E i \in 1..Len(e) : e[i].kind = "APIResponseError"

\* the error is or wraps the caller's cancellation or deadline expiry
IsCallerStop(e) == \E i \in 1..Len(e) : e[i] \in {Canceled, DeadlineExceeded}

\* the error carries a transport status
HasStatus(e) == \E i \in 1..Len(e) : e[i].kind = "grpc.Status"

\* the error is a transport error without a status: an EOF or a net.Error
IsRawTransport(e) == \E i \in 1..Len(e) : e[i].kind \in {"io.EOF", "net.Error"}

\* C11: shouldRetry returns false for every error that is or wraps
\* context.Canceled or context.DeadlineExceeded, also when the error carries
\* a retryable transport status; unless the error is a logical one, the
\* cancellation check is the check that returns.
C11_CallerStopNeverRetried ==
    (retryPc = "classified" /\ IsCallerStop(err)) =>
        /\ retryOut.retry = FALSE
        /\ retryOut.by = (IF IsLogical(err) THEN "logical" ELSE "caller")

C11_Witness ==
    /\ retryPc = "classified"
    /\ err = <<StatusErr("Unavailable"), Canceled>>
    /\ retryOut = [retry |-> FALSE, by |-> "caller"]

\* C12: for an error with a transport status that is neither logical nor a
\* caller stop, shouldRetry returns true exactly when the code of the
\* (outermost) status is DeadlineExceeded, Unavailable, ResourceExhausted or
\* Internal, and the status check is the check that returns.
C12_StatusDecides ==
    (retryPc = "classified" /\ HasStatus(err) /\ ~IsLogical(err) /\ ~IsCallerStop(err)) =>
        LET i == CHOOSE k \in 1..Len(err) :
                    /\ err[k].kind = "grpc.Status"
                    /\ \A j \in 1..(k - 1) : err[j].kind # "grpc.Status"
        IN  /\ retryOut.by = "status"
            /\ retryOut.retry =
                 (err[i].code \in {"Unavailable", "ResourceExhausted", "Internal",
                                   "DeadlineExceeded"})

C12_Witness ==
    /\ retryPc = "classified"
    /\ err = <<Layer("fmt.Errorf", "", 0, ""), StatusErr("DeadlineExceeded")>>
    /\ retryOut = [retry |-> TRUE, by |-> "status"]

\* C13: shouldRetry returns true for every transport error without a
\* status (an EOF or a net.Error) that is neither logical nor a caller stop.
C13_RawTransportRetried ==
    (/\ retryPc = "classified"
     /\ IsRawTransport(err)
     /\ ~HasStatus(err) /\ ~IsLogical(err) /\ ~IsCallerStop(err)) =>
        retryOut.retry = TRUE

\* C14: shouldRetry returns false for the nil error and for every error
\* that is of none of the known classes, by its first and its last return.
C14_FailSafe ==
    (/\ retryPc = "classified"
     /\ ~IsLogical(err) /\ ~IsCallerStop(err) /\ ~HasStatus(err)
     /\ ~IsRawTransport(err)) =>
        /\ retryOut.retry = FALSE
        /\ retryOut.by = (IF Len(err) = 0 THEN "nil" ELSE "default")

C14_Witness ==
    /\ retryPc = "classified"
    /\ err = <<Layer("fmt.Errorf", "", 0, ""), OtherErr>>
    /\ retryOut = [retry |-> FALSE, by |-> "default"]

\* the attempts of the call whose request was answered
Answered == {i \in 1..Len(opLog) : opLog[i].from # "wire"}

\* C15: when the request of an attempt is answered and the extraction
\* yields an APIResponseError, that attempt is the last one whatever is left
\* of the retry budget: no request follows it, none is in flight, and the
\* call has returned that error and no Response.
C15_LogicalStopsRetry ==
    \A i \in Answered :
        IsLogical(opLog[i].err) =>
            /\ i = Len(opLog)
            /\ requests = i
            /\ inFlight = 0
            /\ genPc = "done"
            /\ genOut.done
            /\ genOut.resp = NoResponse
            /\ IsLogical(genOut.err)

C15_Witness ==
    /\ genPc = "done"
    /\ budget = 2
    /\ Len(opLog) = 1
    /\ opLog[1].from = "extract"
    /\ opLog[1].raw = GenerateContentResponse(<<Candidate("SAFETY", Content(<<Part("hello", "")>>))>>)
    /\ requests = 1
    /\ genOut.resp = NoResponse
    /\ IsLogical(genOut.err)

\* C16: a GenerateContent call with the empty prompt returns ErrEmptyPrompt
\* and no Response at once, with or without a connection: retry.Do is not
\* entered and no generate request is issued.
C16_EmptyPromptRejected ==
    (entry = "GenerateContent" /\ prompt = "") =>
        /\ genPc = "done"
        /\ genOut = [done |-> TRUE, resp |-> NoResponse, err |-> <<ErrEmptyPrompt>>]
        /\ ~entered
        /\ requests = 0
        /\ inFlight = 0
        /\ opLog = << >>

C16_Witness ==
    /\ ~conn
    /\ genPc = "done"
    /\ prompt = ""
    /\ genOut.err = <<ErrEmptyPrompt>>
    /\ requests = 0

\* the first candidate exists and finished normally
FirstIsNormal(r) ==
    /\ ~r.nil
    /\ Len(r.candidates) > 0
    /\ ~r.candidates[1].nil
    /\ r.candidates[1].finish \in {"FINISH_REASON_UNSPECIFIED", "STOP"}

\* the first candidate finished normally and has no content, a content
\* without parts, or parts without text only (an image-only payload)
NormalWithoutText(r) ==
    /\ FirstIsNormal(r)
    /\ \/ r.candidates[1].content.nil
       \/ \A k \in 1..Len(r.candidates[1].content.parts) :
            /\ ~r.candidates[1].content.parts[k].nil
            /\ r.candidates[1].content.parts[k].text = ""

\* C19: when the answer to an attempt has a first candidate that finished
\* normally with no content, no parts or no part with text, the attempt
\* returns no error and is the last one, and the call returns a Response with
\* the empty Text and that answer, and no error.
C19_EmptyPayloadSucceeds ==
    \A i \in Answered :
        NormalWithoutText(opLog[i].raw) =>
            /\ opLog[i].err = Nil
            /\ i = Len(opLog)
            /\ requests = i
            /\ genPc = "done"
            /\ genOut.done
            /\ genOut.err = Nil
            /\ ~genOut.resp.nil
            /\ genOut.resp.text = ""
            /\ genOut.resp.raw = opLog[i].raw

C19_Witness ==
    /\ genPc = "done"
    /\ Len(opLog) = 2
    /\ opLog[1].err = <<StatusErr("Unavailable")>>
    /\ opLog[2].raw = GenerateContentResponse(<<Candidate("STOP", NilContent)>>)
    /\ genOut.err = Nil
    /\ genOut.resp.text = ""
    /\ ~genOut.resp.nil

\* C17: for the absent response and for every response without candidates,
\* extractTextFromResponse returns the empty text and the "empty response"
\* APIResponseError.
C17_EmptyResponse ==
    (extractPc = "extracted" /\ (rawResp.nil \/ rawResp.candidates = << >>)) =>
        /\ ~extractOut.panics
        /\ extractOut.text = ""
        /\ Len(extractOut.err) = 1
        /\ extractOut.err[1].kind = "APIResponseError"
        /\ extractOut.err[1].name = "empty response"

C17_Witness ==
    /\ extractPc = "extracted"
    /\ rawResp = [nil |-> FALSE, candidates |-> << >>]
    /\ extractOut.err # Nil

\* C18: when the first candidate's finish reason is neither unspecified nor
\* stop, extractTextFromResponse returns no text and an APIResponseError that
\* names that reason, whatever parts the candidate has; when the first
\* candidate finished normally, no error is returned whatever the finish
\* reasons of the later candidates are.
C18_AbnormalFinish ==
    (extractPc = "extracted" /\ ~rawResp.nil /\ Len(rawResp.candidates) > 0
        /\ ~rawResp.candidates[1].nil) =>
        IF rawResp.candidates[1].finish \notin {"FINISH_REASON_UNSPECIFIED", "STOP"}
          THEN /\ ~extractOut.panics
               /\ extractOut.text = ""
               /\ Len(extractOut.err) = 1
               /\ extractOut.err[1].kind = "APIResponseError"
               /\ extractOut.err[1].name = "blocked"
               /\ extractOut.err[1].code = rawResp.candidates[1].finish
          ELSE extractOut.err = Nil

C18_Witness ==
    /\ extractPc = "extracted"
    /\ Len(rawResp.candidates) = 2
    /\ ~rawResp.candidates[1].nil
    /\ rawResp.candidates[1].finish = "MAX_TOKENS"
    /\ rawResp.candidates[1].content = [nil |-> FALSE, parts |-> <<Part("hello", "")>>]
    /\ ~rawResp.candidates[2].nil
    /\ rawResp.candidates[2].finish = "STOP"
    /\ extractOut.text = ""
    /\ extractOut.err[1].code = "MAX_TOKENS"

\* the parts of the first candidate
FirstParts(r) == r.candidates[1].content.parts

\* the positions of the parts that are present and have text
WithText(ps) == {k \in 1..Len(ps) : ~ps[k].nil /\ ps[k].text # ""}

\* C20: when the first candidate finished normally and has a content with
\* parts, extractTextFromResponse returns, without an error, the text of the
\* first part that has one, having skipped the parts without text before it,
\* and the empty text when no part has one.  (The parts passed over are
\* present ones.)
C20_FirstNonEmptyText ==
    (/\ extractPc = "extracted"
     /\ FirstIsNormal(rawResp)
     /\ ~rawResp.candidates[1].content.nil
     /\ FirstParts(rawResp) # << >>) =>
        LET ps == FirstParts(rawResp)
            last == IF WithText(ps) = {} THEN Len(ps) ELSE Min(WithText(ps))
        IN  (\A j \in 1..last : ~ps[j].nil) =>
                /\ ~extractOut.panics
                /\ extractOut.err = Nil
                /\ extractOut.text = ps[last].text

C20_Witness ==
    /\ extractPc = "extracted"
    /\ Len(rawResp.candidates) = 1
    /\ ~rawResp.candidates[1].nil
    /\ rawResp.candidates[1].finish = "STOP"
    /\ rawResp.candidates[1].content =
            [nil |-> FALSE, parts |-> <<Part("", "img"), Part("hello", "")>>]
    /\ extractOut = [text |-> "hello", err |-> Nil, panics |-> FALSE]

\* the inline payloads of the parts ps from position k on, in order
RECURSIVE PayloadsFrom(_, _)
PayloadsFrom(ps, k) ==
    IF k > Len(ps) THEN << >>
    ELSE IF ps[k].data # "" THEN <<ps[k].data>> \o PayloadsFrom(ps, k + 1)
    ELSE PayloadsFrom(ps, k + 1)

\* C21: when an attempt succeeds, the Images of the Response returned are
\* the inline payloads of all the parts of the first candidate's content, in
\* the order of the parts and with none left out, wherever a text part is;
\* no payload of another candidate is among them.
C21_ImagesOfFirstCandidate ==
    \A i \in 1..Len(opLog) :
        opLog[i].from = "ok" =>
            LET c == opLog[i].raw.candidates[1].content IN
            /\ ~finalResp.nil
            /\ finalResp.raw = opLog[i].raw
            /\ finalResp.images = (IF c.nil THEN << >> ELSE PayloadsFrom(c.parts, 1))
            /\ genOut.done => (genOut.err = Nil /\ genOut.resp = finalResp)

C21_Witness ==
    /\ genPc = "done"
    /\ genOut.err = Nil
    /\ Len(genOut.resp.raw.candidates) = 2
    /\ genOut.resp.raw.candidates[1].content.parts = <<Part("hello", ""), Part("", "img2")>>
    /\ genOut.resp.raw.candidates[2].content.parts = <<Part("", "img")>>
    /\ genOut.resp.text = "hello"
    /\ genOut.resp.images = <<"img2">>

\* C22: GenerateWithParts passes a seed between -2^31 and 2^31 - 1 on with
\* its value, drops a seed outside that range and leaves an absent seed
\* absent; every request of the call is issued with that seed, and a dropped
\* seed is no error: the call goes on to issue its request.
C22_SeedRange ==
    (entry = "GenerateWithParts") =>
        /\ genPc # "idle"
        /\ genConfig.seed =
             (IF optSeed.nil THEN [nil |-> TRUE, v |-> 0]
              ELSE IF optSeed.hi = 0 THEN [nil |-> FALSE, v |-> optSeed.lo]
              ELSE IF optSeed.hi = -1
                  THEN [nil |-> FALSE, v |-> optSeed.lo - 2147483647 - 1]
              ELSE [nil |-> TRUE, v |-> 0])
        /\ requests > 0 => sentConfig = genConfig
        /\ (genPc = "done" /\ genOut.err # Nil) => opLog # << >>

\* the seed 2^31 was dropped and the request went out without a seed
C22_Witness ==
    /\ entry = "GenerateWithParts"
    /\ optSeed = [nil |-> FALSE, hi |-> 1, lo |-> 0]
    /\ requests = 1
    /\ sentConfig.seed.nil
    /\ genPc = "done"
    /\ genOut.err = Nil

\* the DeleteFile executions that have sent a delete request for name n
DeletesOf(n) == {i \in 1..Len(procs) : procs[i].name = n /\ procs[i].issued > 0}

\* the executions of one kind for name n
ProcsOf(kind, n) == {i \in 1..Len(procs) : procs[i].kind = kind /\ procs[i].name = n}

\* waitForFileActive is running for name n
Polling(n) == pc \in {"select", "getting"} /\ fileName = n

\* C23 as stated: once a delete request has been sent for a name, no status
\* call and no second delete request is sent for that name, whatever
\* UploadFile and DeleteFile calls are made.
C23_NoOperationAfterDelete ==
    \A n \in Names :
        /\ DeletesOf(n) # {} => ~Polling(n)
        /\ Cardinality(DeletesOf(n)) <= 1
        /\ \A i \in DeletesOf(n) : procs[i].issued = 1

\* C23, amended: once a delete request has been sent for a name, no status
\* call is sent for it; UploadFile starts at most one cleanup for a name, a
\* name under cleanup is never handed to the caller, and every DeleteFile
\* execution sends at most one request. DeleteFile keeps no record: each
\* call the caller makes with a non-empty name sends a delete request, also
\* for a name that was deleted before.
C23_DeleteOncePerCall ==
    \A n \in Names :
        /\ DeletesOf(n) # {} => ~Polling(n)
        /\ Cardinality(ProcsOf("cleanup", n)) <= 1
        /\ ProcsOf("cleanup", n) # {} => ProcsOf("direct", n) = {}
        /\ \A i \in 1..Len(procs) : procs[i].issued <= 1
        /\ \A i \in ProcsOf("direct", n) :
               /\ procs[i].issued = 1
               /\ procs[i].by = uploads =>
                      (pc = "done" /\ result.name = n /\ result.err = Nil)

\* the caller deleted the uploaded file, the server deleted it, and the
\* caller's second DeleteFile with the same name sent a request again
C23_Witness ==
    \E n \in Names :
        /\ remote[n] = "deleted"
        /\ Cardinality(ProcsOf("direct", n)) = 2
        /\ Cardinality(DeletesOf(n)) = 2
        /\ \E i \in ProcsOf("direct", n) : procs[i].pc = "done" /\ procs[i].err = Nil
        /\ \E i \in ProcsOf("direct", n) : procs[i].pc = "deleting"

\* waitForFileActive has returned an error
PollFailed == pc \in {"waited", "done"} /\ pollRes.err # Nil

\* the error chain holds a context error
WrapsCtxErr(e) == ErrorsIs(e, Canceled) \/ ErrorsIs(e, DeadlineExceeded)

\* C24 as stated: of the errors a failed poll returns, only the cancellation
\* error wraps the caller's context error, and a poll that the caller's
\* cancellation ended returns the cancellation error.
C24_CancelIsCancellationKind ==
    (PollFailed /\ WrapsCtxErr(pollRes.err)) => pollRes.err[1].kind = "PollCanceled"

\* C24, amended: a failed poll returns one of four errors. The error for a
\* file the server reported FAILED and the error for the timeout wrap
\* nothing and differ in kind; the cancellation error wraps the caller's
\* context error and is what the select returns whenever it ends the loop
\* before the timeout has run out. A cancellation that interrupts a status
\* call in flight is returned as the status-check failure wrapping the
\* context error, so an error that wraps a context error is of the
\* cancellation kind or of the status-check kind, never of the FAILED or
\* timeout kind.
C24_PollErrorKinds ==
    /\ [](PollFailed =>
            LET e == pollRes.err IN
            /\ e[1].kind \in {"ServerFailed", "PollTimeout", "PollCanceled",
                               "StatusCheckFailed"}
            /\ e[1].name = fileName
            /\ e[1].kind = "ServerFailed" => (Len(e) = 1 /\ "FAILED" \in seen)
            /\ e[1].kind = "PollTimeout" => (Len(e) = 1 /\ "FAILED" \notin seen)
            /\ e[1].kind = "PollCanceled" =>
                    (Len(e) = 2 /\ ctxErr # "none" /\ e[2] = CtxLayer(ctxErr))
            /\ e[1].kind = "StatusCheckFailed" => Len(e) = 2
            /\ WrapsCtxErr(e) =>
                    /\ ctxErr # "none"
                    /\ e[1].kind \in {"PollCanceled", "StatusCheckFailed"}
                    /\ e[2] = CtxLayer(ctxErr))
    /\ [][(pc = "select" /\ pc' = "waited" /\ timeoutLeft > 0) =>
            (ctxErr # "none" /\ pollRes'.err # Nil
                /\ pollRes'.err[1].kind = "PollCanceled")]_vars

\* the caller cancelled while a status call was in flight, and the poll
\* returned the status-check failure wrapping context.Canceled
C24_Witness ==
    /\ pc = "done"
    /\ ctxErr = "Canceled"
    /\ statusCalls = 1
    /\ pollRes.err = <<Layer("StatusCheckFailed", fileName, 0, ""), Canceled>>
    /\ ErrorsIs(result.err, Canceled)

\* C25: UploadFile does not wait for the cleanup. Once the poll has returned,
\* UploadFile can return at once, whatever the cleanups of earlier uploads
\* are doing; on returning an error it has only started the goroutine: no
\* delete request has been sent, the server's files are untouched and no
\* time has passed. The request is sent, and returns or runs into its
\* timeout, after UploadFile has returned.
C25_CleanupNotAwaited ==
    /\ []((pc = "waited" /\ ~Crashed) =>
            (Cleanups = {} /\ ENABLED UploadFileReturns))
    /\ [][(pc = "waited" /\ pc' = "done") =>
            /\ Len(procs') = Len(procs) + (IF pollRes.err # Nil THEN 1 ELSE 0)
            /\ \A i \in 1..Len(procs) : procs'[i] = procs[i]
            /\ \A i \in (Len(procs) + 1)..Len(procs') :
                   procs'[i].pc = "spawned" /\ procs'[i].issued = 0
            /\ remote' = remote]_vars

\* UploadFile has returned its error; the delete request of its cleanup has
\* been in flight for the cleanup's whole timeout and the file is still
\* stored
C25_Witness ==
    /\ WaitFailed
    /\ remote[fileName] = "stored"
    /\ \E i \in Cleanups :
        /\ procs[i].name = fileName
        /\ procs[i].pc = "deleting"
        /\ procs[i].left = 0

\* what UploadFile returns for a poll that returned res for the name
ReturnedFor(name, res) ==
    IF res.err = Nil
        THEN [uri |-> res.uri, name |-> name, err |-> Nil]
        ELSE [uri |-> "", name |-> "",
              err |-> <<Layer("WaitFailed", name, 0, "")>> \o res.err]

\* a cleanup whose delete failed
FailedCleanups ==
    {i \in 1..Len(procs) :
        procs[i].kind = "cleanup" /\ procs[i].pc = "done" /\ procs[i].err # Nil}

\* C26: what UploadFile returns after the poll is a function of the poll's
\* outcome alone, and nothing the cleanup does afterwards changes it: the
\* returned values stay as they are when the delete succeeds, fails or runs
\* into its timeout. A failed cleanup delete is logged as a warning and is
\* no panic.
C26_CleanupFailureOnlyLogged ==
    /\ []((pc = "done" /\ fileName # "") => result = ReturnedFor(fileName, pollRes))
    /\ [][(pc = "done" /\ pc' = "done") => (result' = result /\ pollRes' = pollRes)]_vars
    /\ [](\A i \in FailedCleanups : procs[i].warned /\ panic = << >>)

\* the cleanup's delete ran into its timeout after UploadFile had returned
\* the poll's timeout error: the file stays stored, a warning is logged and
\* the returned error is the poll's
C26_Witness ==
    /\ WaitFailed
    /\ remote[fileName] = "stored"
    /\ result.err = <<Layer("WaitFailed", fileName, 0, ""),
                      Layer("PollTimeout", fileName, PollingTimeout, "")>>
    /\ \E i \in FailedCleanups :
        /\ procs[i].name = fileName
        /\ procs[i].left = 0
        /\ ErrorsIs(procs[i].err, DeadlineExceeded)
        /\ procs[i].warned

\* the credential error the fixed order gives for the Config of the call:
\* "" when the credentials are accepted
CredentialErr ==
    LET k == cfg.APIKey # ""
        p == cfg.ProjectID # ""
        l == cfg.LocationID # ""
    IN  IF k /\ (p \/ l) THEN "ErrExclusiveConfig"
        ELSE IF p # l THEN "ErrIncompleteVertexConfig"
        ELSE IF ~k /\ ~p /\ ~l THEN "ErrConfigRequired"
        ELSE ""

\* NewClient has been called
NewClientCalled == newPc \in {"creating", "done"}

\* C27: validate looks at APIKey, ProjectID and LocationID in a fixed
\* order: an APIKey together with a ProjectID or LocationID is
\* ErrExclusiveConfig, else exactly one of ProjectID and LocationID is
\* ErrIncompleteVertexConfig, else none of the three is ErrConfigRequired.
\* NewClient returns that error, builds no ClientConfig and returns no
\* client. Otherwise the credentials are accepted: the only error validate
\* can still give is the temperature's, and the ClientConfig built selects
\* the Vertex AI backend exactly when ProjectID and LocationID are both
\* set, the Gemini API backend with the APIKey otherwise.
C27_ValidateOrder ==
    NewClientCalled =>
        /\ CredentialErr # "" =>
                /\ newPc = "done"
                /\ newOut.err = <<Layer(CredentialErr, "", 0, "")>>
                /\ newOut.client = NilClient
                /\ clientCfg = NoClientCfg
        /\ CredentialErr = "" =>
                /\ ~ErrorsIs(newOut.err, ErrExclusiveConfig)
                /\ ~ErrorsIs(newOut.err, ErrIncompleteVertexConfig)
                /\ ~ErrorsIs(newOut.err, ErrConfigRequired)
                /\ ErrorsIs(newOut.err, ErrInvalidTemperature) =>
                        (newOut.client = NilClient /\ clientCfg = NoClientCfg)
                /\ clientCfg # NoClientCfg =>
                        IF cfg.ProjectID # "" /\ cfg.LocationID # ""
                            THEN clientCfg = [APIKey |-> "", Project |-> cfg.ProjectID,
                                              Location |-> cfg.LocationID,
                                              Backend |-> "BackendVertexAI"]
                            ELSE clientCfg = [APIKey |-> cfg.APIKey, Project |-> "",
                                              Location |-> "",
                                              Backend |-> "BackendGeminiAPI"]
                /\ ~newOut.client.nil =>
                        (newOut.err = Nil /\ newOut.client.backend = clientCfg.Backend)

\* an APIKey with a ProjectID alone: the exclusiveness check answers before
\* the completeness check
C27_Witness ==
    /\ newPc = "done"
    /\ cfg.APIKey = "dummy-key"
    /\ cfg.ProjectID = "my-project"
    /\ cfg.LocationID = ""
    /\ newOut = [client |-> NilClient, err |-> <<ErrExclusiveConfig>>]
    /\ clientCfg = NoClientCfg

\* C28: the retry.Config of the client takes MaxRetries, the initial delay
\* and the maximum delay from the Config where the value is greater than
\* zero, and is 1 retry, 30 s and 120 s where it is not; the client of a
\* Config with MaxRetries 0 has a budget of one retry.
C28_RetryBudget ==
    ~newOut.client.nil =>
        /\ newOut.client.retryConfig.MaxRetries =
                (IF cfg.MaxRetries > 0 THEN cfg.MaxRetries ELSE 1)
        /\ newOut.client.retryConfig.InitialInterval =
                (IF cfg.InitialDelay > 0 THEN cfg.InitialDelay ELSE 30)
        /\ newOut.client.retryConfig.MaxInterval =
                (IF cfg.MaxDelay > 0 THEN cfg.MaxDelay ELSE 120)
        /\ newOut.client.retryConfig.MaxRetries >= 1

\* MaxRetries 0 and a negative maximum delay get the defaults, the initial
\* delay of 10 s is taken over
C28_Witness ==
    /\ newPc = "done"
    /\ cfg.MaxRetries = 0
    /\ cfg.InitialDelay = 10
    /\ cfg.MaxDelay = -60
    /\ ~newOut.client.nil
    /\ newOut.client.retryConfig =
            [MaxRetries |-> 1, InitialInterval |-> 10, MaxInterval |-> 120]

\* the states that keep the loop going
Pending == {"PROCESSING", "STATE_UNSPECIFIED"}

\* C29: every tick taken by the select makes one status call. The step
\* that takes the call's answer ends the loop exactly when the answer is
\* ACTIVE (the poll returns the answer's URI), when it is FAILED (the poll
\* returns the error naming the file), or when the call failed; after a
\* PROCESSING or unknown answer the loop is back at the select with no
\* result and no error, as often as such answers come. A poll that saw only
\* such answers and no failed call therefore ends by the timeout or by the
\* caller's cancellation.
C29_TickOutcome ==
    /\ [][(pc = "select" /\ pc' = "getting") =>
            /\ tickPending
            /\ statusCalls' >= statusCalls
            /\ statusCalls <= MaxHist => statusCalls' = statusCalls + 1]_vars
    /\ [][(pc = "getting" /\ pc' # "getting") =>
            /\ pc' \in {"select", "waited"}
            /\ pc' = "select" =>
                    (seen' # {} /\ seen' \subseteq Pending /\ pollRes' = NoPoll)
            /\ pc' = "waited" =>
                    \/ /\ "ACTIVE" \in seen'
                       /\ pollRes'.err = Nil
                       /\ pollRes'.uri \in URIs
                    \/ /\ "FAILED" \in seen'
                       /\ pollRes' = [uri |-> "",
                                      err |-> <<Layer("ServerFailed", fileName, 0, "")>>]
                    \/ /\ hist' = hist /\ seen' = seen
                       /\ pollRes'.uri = ""
                       /\ pollRes'.err # Nil
                       /\ pollRes'.err[1] = Layer("StatusCheckFailed", fileName, 0, "")
            /\ Len(hist') > Len(hist) =>
                    LET f == hist'[Len(hist')] IN
                    /\ f.state = "ACTIVE" =>
                            (pc' = "waited" /\ pollRes' = [uri |-> f.uri, err |-> Nil])
                    /\ f.state = "FAILED" => (pc' = "waited" /\ pollRes'.err # Nil)
                    /\ f.state \in Pending => pc' = "select"]_vars
    /\ [](pc \in {"select", "getting"} => (seen \subseteq Pending /\ pollRes = NoPoll))
    /\ []((pc \in {"waited", "done"} /\ fileName # "" /\ seen \subseteq Pending) =>
            /\ pollRes.err # Nil
            /\ pollRes.err[1].kind \in {"PollTimeout", "PollCanceled", "StatusCheckFailed"})

\* every status call of the poll was answered with the unknown state: the
\* loop went on until the timeout
C29_Witness ==
    /\ pc = "done"
    /\ ctxErr = "none"
    /\ seen = {"STATE_UNSPECIFIED"}
    /\ Len(hist) = MaxHist
    /\ statusCalls > MaxHist
    /\ pollRes.err = <<Layer("PollTimeout", fileName, PollingTimeout, "")>>

\* the ticks the ticker has fired since the poll began, while the poll runs:
\* one every PollingInterval up to the timeout, and those counted after it
TicksFired ==
    IF timeoutLeft > 0
        THEN (PollingTimeout - timeoutLeft) \div PollingInterval
        ELSE (PollingTimeout \div PollingInterval) + lateTicks

\* the status calls issued so far by a poll that dropped no tick: every
\* tick fired but the one still waiting in ticker.C was taken by the select
StatusCallsIssued == TicksFired - (IF tickPending THEN 1 ELSE 0)

\* C30 as stated, its bound: a poll issues at most PollingTimeout /
\* PollingInterval status calls.
C30_StatusCallsBounded ==
    (PollActive /\ ~dropped) => StatusCallsIssued <= PollingTimeout \div PollingInterval

\* C31 as stated, for the timeout: the select issues a status call only
\* for a tick that fired before the timeout; a tick that ticker.C received
\* after the timeout had fired (lateTicks > 0) is never taken.
C31_FirstSignalWins ==
    [][(pc = "select" /\ pc' = "getting") => lateTicks = 0]_vars

\* C32 as stated: the caller's cancellation is observed by the select
\* alone and never by a status call; a status call issued runs to its end
\* and the poll acts on its answer, so no status call ends with the
\* context's error.
C32_NoPreemption ==
    [][(pc = "getting" /\ pc' = "waited" /\ ctxErr # "none") =>
            ~ErrorsIs(pollRes'.err, CtxLayer(ctxErr))]_vars

\* C32, amended: the caller's cancellation by itself moves nothing: the
\* poll returns the cancellation error only from the select, and a status
\* call in flight stays in flight. But the status call runs under the
\* caller's context: it may end with the context's error once the context
\* is done (and only then), and the poll then returns the status-check
\* failure wrapping that error without looking at any file state. A status
\* call that does return an answer under a context that is done has its
\* answer acted on: ACTIVE ends the poll with success.
C32_CancelSeenBySelectAndCall ==
    /\ [][(pc = "getting" /\ ctxErr = "none" /\ ctxErr' # "none") =>
            (pc' = "getting" /\ pollRes' = pollRes)]_vars
    /\ [][(pollRes' # pollRes /\ pollRes'.err # Nil
                /\ pollRes'.err[1].kind = "PollCanceled") => pc = "select"]_vars
    /\ [][(pc = "getting" /\ pc' = "waited" /\ hist' = hist /\ seen' = seen) =>
            /\ Len(pollRes'.err) = 2
            /\ pollRes'.err[1] = Layer("StatusCheckFailed", fileName, 0, "")
            /\ pollRes'.err[2] \in {Canceled, DeadlineExceeded} =>
                    (ctxErr # "none" /\ pollRes'.err[2] = CtxLayer(ctxErr))]_vars
    /\ [][(pc = "getting" /\ ctxErr # "none" /\ Len(hist') > Len(hist)) =>
            LET f == hist'[Len(hist')] IN
            /\ f.state = "ACTIVE" =>
                    (pc' = "waited" /\ pollRes' = [uri |-> f.uri, err |-> Nil])
            /\ f.state = "FAILED" =>
                    (pc' = "waited" /\ pollRes'.err # Nil
                        /\ pollRes'.err[1].kind = "ServerFailed")
            /\ f.state \in Pending => (pc' = "select" /\ pollRes' = NoPoll)]_vars

\* the caller cancelled, the status call in flight still answered ACTIVE
\* and UploadFile returned the file
C32_Witness ==
    /\ pc = "done"
    /\ ctxErr = "Canceled"
    /\ statusCalls = 1
    /\ hist = <<[state |-> "ACTIVE", uri |-> "x"]>>
    /\ result = [uri |-> "x", name |-> fileName, err |-> Nil]

\* C33: within one generation call at most one request is in flight, and
\* only while op waits for its answer; every attempt of op has issued
\* exactly one request; every attempt but the last ended with a failure
\* that shouldRetry accepts, and so did the last one while the call goes
\* on; the requests never exceed the first attempt plus the MaxRetries of
\* the client's retry configuration.
C33_SequentialRetries ==
    /\ inFlight \in {0, 1}
    /\ inFlight = 1 <=> genPc = "wire"
    /\ genPc # "panic" => requests = Len(opLog) + inFlight
    /\ requests <= budget + 1
    /\ \A i \in 1..Len(opLog) :
           (i < Len(opLog) \/ genPc \in {"backoff", "op", "wire"}) =>
               /\ opLog[i].err # Nil
               /\ RetryDecision(opLog[i].err).retry

\* the first request failed with Unavailable, the retry is in flight
C33_Witness ==
    /\ genPc = "wire"
    /\ budget = 1
    /\ requests = 2
    /\ inFlight = 1
    /\ Len(opLog) = 1
    /\ opLog[1].err = <<StatusErr("Unavailable")>>

\* the cleanup goroutines started by call k
CleanupsOf(k) == {i \in 1..Len(procs) : procs[i].kind = "cleanup" /\ procs[i].by = k}

\* the context errors a poll result wraps
CtxKindsOf(e) == {c \in {"Canceled", "DeadlineExceeded"} : ErrorsIs(e, CtxLayer(c))}

\* C34: two UploadFile calls running concurrently on one client do not
\* interfere.  The server gives them different names; a step of one call
\* leaves the other call's state alone; what a call returns is determined by
\* its own file.Name and its own poll's result; a call's failure carries a
\* context error only when its own ctx is done, and then that ctx's error;
\* every cleanup goroutine was started by a call whose own wait failed and
\* deletes that call's file.Name, at most one per call; and the file of a
\* call that returned success is still stored, whatever became of the other.
C34_ConcurrentUploadsIsolated ==
    /\ [](\A k \in Callers : \A j \in Callers \ {k} :
            calls[k].name # "" => calls[j].name # calls[k].name)
    /\ [][\A k \in Callers : calls'[k] # calls[k] =>
            \A j \in Callers \ {k} : calls'[j] = calls[j]]_vars
    /\ [](\A k \in Callers : calls[k].pc = "done" /\ calls[k].name # "" =>
            calls[k].result = UploadFileResult(calls[k].name, calls[k].res))
    /\ [](\A k \in Callers :
            /\ CtxKindsOf(calls[k].res.err) \subseteq {calls[k].ctx}
            /\ CtxKindsOf(calls[k].result.err) \subseteq {calls[k].ctx})
    /\ [](\A i \in 1..Len(procs) :
            /\ procs[i].kind = "cleanup"
            /\ procs[i].by \in Callers
            /\ procs[i].name = calls[procs[i].by].name
            /\ procs[i].name # ""
            /\ calls[procs[i].by].pc = "done"
            /\ calls[procs[i].by].res.err # Nil)
    /\ [](\A k \in Callers : Cardinality(CleanupsOf(k)) <= 1)
    /\ [](\A k \in Callers :
            calls[k].pc = "done" /\ calls[k].result.err = Nil =>
                /\ remote[calls[k].name] = "stored"
                /\ CleanupsOf(k) = {})

\* call 1 was cancelled while call 2 polled; call 1's cleanup has deleted
\* call 1's file, and call 2 has returned its own file
C34_Witness ==
    /\ calls[1].pc = "done" /\ calls[2].pc = "done"
    /\ calls[1].name = "files/a" /\ calls[2].name = "files/b"
    /\ calls[1].ctx = "Canceled" /\ calls[2].ctx = "none"
    /\ ErrorsIs(calls[1].result.err, Canceled)
    /\ calls[2].result = [uri |-> "x", name |-> "files/b", err |-> Nil]
    /\ Len(procs) = 1 /\ procs[1].name = "files/a" /\ procs[1].pc = "done"
    /\ remote["files/a"] = "deleted" /\ remote["files/b"] = "stored"

\* the cleanup goroutines started by upload u
CleanupsBy(u) == {i \in 1..Len(procs) : procs[i].kind = "cleanup" /\ procs[i].by = u}

\* C35: a cleanup goroutine sends at most one delete request: none before
\* it runs, one from then on, also when the request failed or the
\* cleanup's own timeout ran out; once it has ended it does nothing more;
\* every goroutine that was started ends; and UploadFile starts one
\* goroutine for a call whose wait failed and none for any other call.
C35_OneDeleteThenEnds ==
    /\ [](\A i \in 1..Len(procs) :
            /\ procs[i].kind = "cleanup"
            /\ procs[i].issued = (IF procs[i].pc = "spawned" THEN 0 ELSE 1))
    /\ [][\A i \in 1..Len(procs) :
            /\ procs[i].pc = "deleting" => procs'[i].pc \in {"deleting", "done"}
            /\ procs[i].pc = "done" => procs'[i] = procs[i]]_vars
    /\ <>[](\A i \in 1..Len(procs) : procs[i].pc = "done")
    /\ [](\A u \in 1..uploads : Cardinality(CleanupsBy(u)) <= 1)
    /\ [](pc = "done" =>
            Cardinality(CleanupsBy(uploads)) = (IF pollRes.err # Nil THEN 1 ELSE 0))
    /\ [](pc # "done" => CleanupsBy(uploads) = {})

\* the delete request of a cleanup ended when the cleanup's own timeout ran
\* out: the goroutine has ended after its one request and the file stays
C35_Witness ==
    /\ pc = "done"
    /\ pollRes.err # Nil
    /\ CleanupsBy(uploads) = {1}
    /\ procs[1].pc = "done"
    /\ procs[1].issued = 1
    /\ procs[1].left = 0
    /\ ErrorsIs(procs[1].err, DeadlineExceeded)
    /\ remote[procs[1].name] = "stored"

\* the delete requests sent for name n, by cleanups and by direct calls
DeleteRequests(n) == {i \in 1..Len(procs) : procs[i].name = n /\ procs[i].issued > 0}

\* C36: when UploadFile has returned an error, the URI and the name it
\* returned are both empty; each DeleteFile call the caller makes with that
\* name has returned nil without sending a request; and for every name the
\* server assigned, at most one delete request was sent, by a cleanup
\* goroutine.
C36_FailedReturnsNothing ==
    /\ (pc = "done" /\ result.err # Nil) => (result.uri = "" /\ result.name = "")
    /\ \A i \in 1..Len(procs) :
          procs[i].kind = "direct" =>
              /\ procs[i].name = ""
              /\ procs[i].pc = "done"
              /\ procs[i].issued = 0
              /\ procs[i].err = Nil
    /\ \A n \in Names :
          /\ Cardinality(DeleteRequests(n)) <= 1
          /\ \A i \in DeleteRequests(n) : procs[i].kind = "cleanup" /\ procs[i].issued = 1

\* the wait failed, the cleanup has deleted the file, and the caller's
\* DeleteFile call with the returned name did nothing
C36_Witness ==
    /\ pc = "done"
    /\ fileName = "files/a"
    /\ result = [uri |-> "", name |-> "", err |-> result.err]
    /\ result.err # Nil
    /\ remote["files/a"] = "deleted"
    /\ DeleteRequests("files/a") # {}
    /\ \E i \in 1..Len(procs) :
          procs[i].kind = "direct" /\ procs[i].by = uploads /\ procs[i].pc = "done"

\* UploadFile has returned without an error
Succeeded == pc = "done" /\ result.err = Nil

\* C37: UploadFile returns success only after a status call was answered
\* ACTIVE.  The poll ends without an error only in the step that takes an
\* ACTIVE answer, and with that answer's URI; the timeout case, the
\* cancellation case and a failed status call end it with an error, and a
\* PROCESSING or unknown answer does not end it.  A successful UploadFile
\* returns the URI of the ACTIVE answer, which was the last answer of the
\* poll, and the name the server assigned to the upload; a call that saw no
\* ACTIVE answer returns an error, no URI and no name.
C37_SuccessOnlyIfActive ==
    /\ [][(pc # "waited" /\ pc' = "waited") =>
            IF pollRes'.err = Nil
                THEN /\ pc = "getting"
                     /\ seen' = seen \cup {"ACTIVE"}
                     /\ "ACTIVE" \notin seen
                     /\ pollRes'.uri \in URIs
                     /\ Len(hist') > Len(hist) => hist'[Len(hist')] = Active(pollRes'.uri)
                ELSE pollRes'.uri = ""]_vars
    /\ [][(pc = "select" /\ pc' = "waited") => pollRes'.err # Nil]_vars
    /\ [](Succeeded =>
            /\ "ACTIVE" \in seen
            /\ "FAILED" \notin seen
            /\ statusCalls >= 1
            /\ pollRes.err = Nil
            /\ result.uri = pollRes.uri
            /\ result.uri \in URIs
            /\ result.name = fileName
            /\ fileName \in Assigned
            /\ statusCalls <= MaxHist =>
                    /\ Len(hist) = statusCalls
                    /\ hist[Len(hist)] = Active(result.uri)
                    /\ \A i \in 1..(Len(hist) - 1) : hist[i].state \in Pending)
    /\ []((pc = "done" /\ "ACTIVE" \notin seen) =>
            /\ result.err # Nil
            /\ result.uri = ""
            /\ result.name = "")

\* the file became active at the third status call, after a PROCESSING and
\* an unknown answer
C37_Witness ==
    /\ Succeeded
    /\ seen = {"PROCESSING", "STATE_UNSPECIFIED", "ACTIVE"}
    /\ hist = <<Processing, [state |-> "STATE_UNSPECIFIED", uri |-> ""], Active("y")>>
    /\ result = [uri |-> "y", name |-> "files/a", err |-> Nil]
    /\ remote["files/a"] = "stored"

\* the DeleteFile calls the caller made with name n
DirectsOf(n) == {i \in 1..Len(procs) : procs[i].kind = "direct" /\ procs[i].name = n}

\* C38: a successful UploadFile leaves the file on the server.  When it
\* returns it has started no cleanup goroutine; no cleanup goroutine ever
\* has a name that UploadFile returned; as long as the caller has sent no
\* delete for the returned name the file is stored; and the file of a
\* successful call stops being stored only in the step in which a
\* DeleteFile call of the caller for that name succeeds.
C38_SuccessKeepsFile ==
    /\ [](Succeeded =>
            /\ CleanupsBy(uploads) = {}
            /\ \A i \in 1..Len(procs) : procs[i].kind = "cleanup" => procs[i].name # result.name
            /\ (\A i \in DirectsOf(result.name) : procs[i].issued = 0) =>
                    remote[result.name] = "stored"
            /\ remote[result.name] = "deleted" =>
                    \E i \in DirectsOf(result.name) :
                        procs[i].pc = "done" /\ procs[i].issued = 1 /\ procs[i].err = Nil)
    /\ [](\A i \in 1..Len(procs) : \A j \in 1..Len(procs) :
            (procs[i].kind = "direct" /\ procs[j].kind = "cleanup") =>
                procs[i].name # procs[j].name)
    /\ [][(Succeeded /\ remote[result.name] = "stored" /\ remote'[result.name] # "stored") =>
            \E i \in DirectsOf(result.name) :
                /\ procs[i].pc = "deleting"
                /\ procs'[i].pc = "done"
                /\ procs'[i].err = Nil]_vars

\* UploadFile succeeded; the caller's first DeleteFile call for the returned
\* name is under way, and until it succeeds the file is stored
C38_Witness ==
    /\ Succeeded
    /\ result.name = "files/a"
    /\ Len(procs) = 1
    /\ procs[1].kind = "direct"
    /\ procs[1].name = "files/a"
    /\ procs[1].pc = "deleting"
    /\ remote["files/a"] = "stored"

\* the poll ended because a status call failed
StatusCallFailed ==
    /\ pc \in {"waited", "done"}
    /\ pollRes.err # Nil
    /\ pollRes.err[1].kind = "StatusCheckFailed"

\* C39: a failed status call ends the poll at once.  Every status call the
\* loop goes on after was answered; the step in which a call fails takes
\* the loop to its end with an error that names the file and wraps the
\* call's error, whatever that error is, and stops the ticker; once the
\* poll has ended no status call is made; shouldRetry is never called;
\* and UploadFile returns an error wrapping the same failure and has
\* started the cleanup of the name.
C39_StatusFailureEndsPoll ==
    /\ []((pc \in {"select", "getting"} /\ statusCalls <= MaxHist) =>
            Len(hist) = statusCalls - (IF pc = "getting" THEN 1 ELSE 0))
    /\ [][(pc = "getting" /\ pc' # "getting" /\ statusCalls <= MaxHist /\ hist' = hist) =>
            /\ pc' = "waited"
            /\ statusCalls' = statusCalls
            /\ ~tickPending'
            /\ pollRes'.uri = ""
            /\ Len(pollRes'.err) = 2
            /\ pollRes'.err[1] = Layer("StatusCheckFailed", fileName, 0, "")
            /\ <<pollRes'.err[2]>> \in RemoteCallErrs("caller", 0)]_vars
    /\ [][(pc \in {"waited", "done"} /\ uploads' = uploads) =>
            /\ pc' \in {"waited", "done"}
            /\ statusCalls' = statusCalls
            /\ pollRes' = pollRes]_vars
    /\ [](retryPc = "off" /\ retryOut = NoDecision)
    /\ [](StatusCallFailed =>
            /\ statusCalls >= 1
            /\ statusCalls <= MaxHist => Len(hist) = statusCalls - 1
            /\ seen \subseteq Pending
            /\ pc = "done" =>
                    /\ result.uri = "" /\ result.name = ""
                    /\ result.err = WaitFailedErr(fileName, pollRes.err)
                    /\ Cardinality(CleanupsBy(uploads)) = 1
                    /\ \A i \in CleanupsBy(uploads) : procs[i].name = fileName)

\* the second status call failed with Unavailable, an error shouldRetry
\* would accept: the poll ended there and the upload failed
C39_Witness ==
    /\ pc = "done"
    /\ ctxErr = "none"
    /\ statusCalls = 2
    /\ hist = <<Processing>>
    /\ pollRes.err = StatusCheckFailedErr(fileName, <<StatusErr("Unavailable")>>)
    /\ RetryDecision(pollRes.err).retry
    /\ ErrorsIs(result.err, StatusErr("Unavailable"))
    /\ CleanupsBy(uploads) # {}

\* C40: extractTextFromResponse is total: for every response, a nil one, one
\* whose first candidate is nil, one whose candidate has no content and one
\* whose parts list holds nil entries included, the call returns (text, nil)
\* or ("", an APIResponseError) and does not panic.
C40_ExtractTotal ==
    extractPc = "extracted" =>
        /\ ~extractOut.panics
        /\ \/ extractOut.err = Nil
           \/ /\ extractOut.text = ""
              /\ ErrorsAs(extractOut.err, "APIResponseError")

====
